---- MODULE Spec2Model ----
(***************************************************************************)
(* Model of the Copilot CLI SDK client runtime of github-copilot-office:   *)
(*   CopilotClient   (copilot-sdk-nodejs/client.ts,  src/unnamed/part_001) *)
(*   CopilotSession  (copilot-sdk-nodejs/session.ts, src/unnamed/part_000) *)
(*   query()         (src/copilot-sdk-nodejs/query.ts)                     *)
(*                                                                         *)
(* JavaScript is single threaded: an async function runs without           *)
(* interruption from its call to its first await and from one await to the *)
(* next.  Every action below is one such run-to-suspension segment.  A     *)
(* call in flight is a stack of frames (thr[t]); a frame that returns is   *)
(* popped and leaves its result in ret[t], which the awaiting frame below  *)
(* consumes in its own later segment.                                      *)
(***************************************************************************)
EXTENDS Integers, Sequences, FiniteSets, TLC

\* ------------------------------------------------------------------ bounds
MaxThreads  == 2   \* calls that may be in flight at once
MaxCalls    == 2   \* API calls issued where calls may overlap
MaxSeqCalls == 3   \* API calls issued where each call is awaited before the next
MaxProcs    == 2   \* processes spawned in one behaviour
MaxConns    == 2   \* RPC connections created in one behaviour
MaxObjs     == 2   \* CopilotSession objects constructed in one behaviour
MaxEvents   == 2   \* session.event notifications the process sends to a query
MaxStreamEvents == 3 \* the same where only the event loop of the query runs
MaxPort     == 30  \* the highest port a server binds and announces
MaxChunk    == 24  \* characters in one chunk of standard output
MaxArgPort  == 2   \* the highest port a caller passes in its options
MaxAskEvents == 2  \* events the query() under one ask() yields
MaxStoreCalls == 3 \* calls of getSavedSessions, saveSession and deleteSession
MaxSessionIds == 3 \* distinct ids of the sessions the application saves
MaxHandlers == 2   \* distinct handler functions an application passes
MaxSubs     == 2   \* calls of session.on() in one behaviour
MaxTools    == 2   \* length of the tools array given to registerTools()

Threads    == 1..MaxThreads
Procs      == 1..MaxProcs
Conns      == 1..MaxConns
Objs       == 1..MaxObjs
ToolNames  == {"t1"}
Handlers   == 1..MaxHandlers

\* ------------------------------------------------------- program constants
\* sessionStorage.ts: const MAX_SESSIONS_PER_HOST = 50, scaled down so that
\* the lists the model enumerates reach it
MAX_SESSIONS_PER_HOST == 2
\* sessionStorage.ts: normalizeScopeKey ends with .slice(0, 80)
ScopeKeyLimit == 80
MaxDestroyAttempts == 3     \* client.ts: for (attempt = 1; attempt <= 3; ...)
BaseDelay          == 100   \* client.ts: 100 * Math.pow(2, attempt - 1)
Timeout            == 60000 \* query.ts: timeout = 60000

VARIABLES
  \* CopilotClient fields
  state,        \* ConnectionState
  cliProcess,   \* ChildProcess | null   (0 = null)
  connection,   \* MessageConnection | null (0 = null)
  socket,       \* Socket | null (0 = null; otherwise the process it dials)
  actualPort,   \* number | null (0 = null)
  sessions,     \* Map<string, CopilotSession>, in insertion order
  options,      \* resolved CopilotClientOptions
  \* the world outside the client
  procs,        \* every ChildProcess ever spawned
  conns,        \* every MessageConnection ever created
  objs,         \* every CopilotSession ever constructed
  \* control
  thr,          \* thr[t]: stack of frames of the call running in slot t
  ret,          \* ret[t]: result of the frame that returned last in slot t
  ncalls,       \* API calls issued so far
  scenario,     \* how the application and the environment behave (fixed by Init)
  qs,           \* the locals of the one query() generator ("query" scenario)
  sx,           \* one CopilotSession with its handler collections ("session", "tool")
  tcall,        \* the tool.call request being served and its answer ("tool" scenario)
  cli,          \* the standard output of the CLI server and the text read from it ("tcp")
  argv,         \* the options given to a constructor and the argument list spawned ("args")
  ak,           \* one ask() call over its query() ("ask")
  store,        \* localStorage as sessionStorage.ts uses it ("storage")
  nt            \* the session.event notification handled last ("notify")

clientVars == <<state, cliProcess, connection, socket, actualPort, sessions>>
worldVars  == <<procs, conns, objs>>
pureVars   == <<argv, ak, store, nt>>
unitVars   == <<sx, tcall, cli, argv, ak, store, nt>>
vars == <<state, cliProcess, connection, socket, actualPort, sessions, options,
          procs, conns, objs, thr, ret, ncalls, scenario, qs, sx, tcall, cli,
          argv, ak, store, nt>>

\* "concurrent": the application may issue a call while others are in flight;
\*               dispose(), end() and kill() do not throw
\* "sequential": the application awaits each call before the next (reconnect()
\*               still runs beside it); dispose(), end() and kill() may throw
\* "query":      one query() over its private client; the process answers or
\*               rejects requests but does not exit or close the channel unasked
Overlap   == scenario = "concurrent"
Faults    == scenario = "sequential"
Crashes   == scenario # "query"
CallLimit == IF scenario = "concurrent" THEN MaxCalls ELSE MaxSeqCalls
EventLimit == IF scenario = "stream" THEN MaxStreamEvents ELSE MaxEvents

\* ----------------------------------------------------------------- helpers
NoProc == [status |-> "none", ready |-> "pending", rerr |-> ""]
NoConn == [status |-> "none", proc |-> 0]
NoObj  == [sessionId |-> 0, connection |-> 0, toolHandlers |-> {},
           eventHandlers |-> 0, destroyed |-> FALSE]
NoRet  == [op |-> "none", ok |-> TRUE, err |-> "", errors |-> <<>>, obj |-> 0,
           log |-> <<>>, snap |-> {}]

Frame(op, pc) ==
  [op |-> op, pc |-> pc, proc |-> 0, conn |-> 0, cres |-> "pending",
   cerr |-> "", attempt |-> 0, idx |-> 0, cur |-> 0, lastError |-> "",
   errors |-> <<>>, tools |-> {}, log |-> <<>>, snap |-> {}]

Top(t)  == thr[t][Len(thr[t])]
Base(t) == SubSeq(thr[t], 1, Len(thr[t]) - 1)
Idle(t) == thr[t] = <<>>
At(t, op, pc) == /\ thr[t] # <<>>
                 /\ Top(t).op = op
                 /\ Top(t).pc = pc

\* first unused identity of each kind (0 when the bound is exhausted)
ProcUsed(p) == procs[p].status # "none"
ConnUsed(c) == conns[c].status # "none"
ObjUsed(o)  == objs[o].sessionId # 0
FreshProc == IF \E x \in Procs : ~ProcUsed(x) THEN CHOOSE x \in Procs : ~ProcUsed(x) /\ \A y \in Procs : y < x => ProcUsed(y) ELSE 0
FreshConn == IF \E x \in Conns : ~ConnUsed(x) THEN CHOOSE x \in Conns : ~ConnUsed(x) /\ \A y \in Conns : y < x => ConnUsed(y) ELSE 0
FreshObj  == IF \E x \in Objs : ~ObjUsed(x) THEN CHOOSE x \in Objs : ~ObjUsed(x) /\ \A y \in Objs : y < x => ObjUsed(y) ELSE 0

\* the frame on top returns: it is popped and its result left in ret[t]
Return(t, base, r) ==
  /\ thr' = [thr EXCEPT ![t] = base]
  /\ ret' = [ret EXCEPT ![t] = r]
\* the call in slot t suspends with frame f on top (a result it consumed is dead)
Suspend(t, base, f) ==
  /\ thr' = [thr EXCEPT ![t] = Append(base, f)]
  /\ ret' = [ret EXCEPT ![t] = NoRet]

\* query(): session is the session it created, iter and ierr the state of the
\* event iterator and the error it keeps, pending the events it has buffered,
\* taken the events the loop was handed, out what was yielded, thrown the
\* error the try block ended with and err the error of the query, cleanup the
\* number of errors stop() returned
NoQuery == [session |-> 0, turnFinished |-> FALSE, timer |-> "unset",
            iter |-> "none", ierr |-> "", send |-> "none", pending |-> <<>>,
            taken |-> <<>>, out |-> <<>>, sent |-> 0, exit |-> "none",
            outcome |-> "running", thrown |-> "", err |-> "", stopRan |-> FALSE,
            includeEphemeral |-> "undefined", cleanup |-> 0]
EventTypes == {"assistant.message", "session.error", "session.idle"}
\* options.includeEphemeral as the caller passes it
IncludeEphemeralOptions == {"undefined", "true", "false"}

\* one entry of the record a call keeps of what it did (read by the properties)
LogEntry(k, obj, attempt, ok, ms) ==
  [k |-> k, obj |-> obj, attempt |-> attempt, ok |-> ok, ms |-> ms]
\* one element of the list stop() returns
StopError(k, id, msg) == [k |-> k, id |-> id, msg |-> msg]

OkRet(op)      == [NoRet EXCEPT !.op = op]
ErrRet(op, e)  == [NoRet EXCEPT !.op = op, !.ok = FALSE, !.err = e]

\* names a tool.call may carry and registerTools() may register
UnitToolNames == {"t1", "t2"}

\* new CopilotSession(sessionId, connection): both collections empty.  A Set is
\* the sequence of its members in insertion order, a Map a function (0: absent).
\* subs are the unsubscribe closures on() has handed out, inflight the
\* session.destroy requests awaiting their answer, tools the argument of the
\* last registerTools() (regd: none cleared since), last what the last call did.
NoLast == [op |-> "none", inv |-> [h \in Handlers |-> 0], threw |-> {},
           raised |-> FALSE, k |-> 0, name |-> "", got |-> 0, ok |-> TRUE,
           second |-> FALSE]
NoSession == [eventHandlers |-> <<>>, toolHandlers |-> [n \in UnitToolNames |-> 0],
              conn |-> "open", subs |-> <<>>, inflight |-> 0, destroyed |-> FALSE,
              tools |-> [given |-> FALSE, arr |-> <<>>], regd |-> FALSE,
              last |-> NoLast]

\* A JavaScript value a handler returns or throws: kind is its runtime type,
\* str the text of a string (the decimal form of a number), message the
\* message of an Error, has the properties an object carries.
Undefined == [kind |-> "undefined", str |-> "", message |-> "", has |-> {},
              textResultForLlm |-> "", resultType |-> "", error |-> "",
              toolTelemetry |-> ""]
\* tool.call params that are null
NullPayload == [given |-> FALSE, sessionId |-> [str |-> FALSE, v |-> 0],
                toolCallId |-> [str |-> FALSE], toolName |-> [str |-> FALSE, v |-> ""]]
\* no tool.call has arrived.  pc is where the request stands, handler the
\* handler looked up for it, inv how often each handler was invoked for it,
\* answer/result/err the response, settled/value/sync how its handler ended.
NoToolCall == [pc |-> "none", params |-> NullPayload, handler |-> 0,
               inv |-> [h \in Handlers |-> 0], answer |-> "none",
               result |-> Undefined, err |-> "", settled |-> "none",
               value |-> Undefined, sync |-> FALSE]

\* a process that has written nothing: `let stdout = ""`
NoOutput == [port |-> 0, unread |-> <<>>, stdout |-> <<>>]

\* no constructor call, no ask() and an empty localStorage
NoArgv  == [pc |-> "none", given |-> <<>>, options |-> <<>>, args |-> <<>>]
NoAsk   == [pc |-> "none", onEvent |-> FALSE, gen |-> "none", yielded |-> <<>>,
            events |-> <<>>, finalContent |-> "", result |-> <<>>]
NoStore == [calls |-> 0, items |-> <<>>, saved |-> {}, last |-> <<>>]
NoNotification == [pc |-> "none", params |-> <<>>, inv |-> <<>>, raised |-> FALSE]
PureIdle ==
  /\ argv = NoArgv
  /\ ak = NoAsk
  /\ store = NoStore
  /\ nt = NoNotification

\* the state after `new CopilotClient(options)`
NewClient ==
  /\ state = "disconnected"
  /\ cliProcess = 0
  /\ connection = 0
  /\ socket = 0
  /\ actualPort = 0
  /\ sessions = <<>>
  /\ procs = [p \in Procs |-> NoProc]
  /\ conns = [c \in Conns |-> NoConn]
  /\ objs = [o \in Objs |-> NoObj]
  /\ thr = [t \in Threads |-> <<>>]
  /\ ret = [t \in Threads |-> NoRet]
  /\ ncalls = 0
  /\ qs = NoQuery
  /\ sx = NoSession
  /\ tcall = NoToolCall
  /\ cli = NoOutput

Constructed ==
  /\ NewClient
  /\ PureIdle

Init ==
  /\ Constructed
  /\ options \in [useStdio : BOOLEAN, autoStart : BOOLEAN, autoRestart : BOOLEAN]
  /\ scenario = "concurrent"

InitSeq ==
  /\ Constructed
  /\ options \in [useStdio : BOOLEAN, autoStart : BOOLEAN, autoRestart : {FALSE}]
  /\ scenario = "sequential"

\* query() constructs its client with the default transport and auto flags
InitQuery ==
  /\ Constructed
  /\ options = [useStdio |-> TRUE, autoStart |-> TRUE, autoRestart |-> TRUE]
  /\ scenario = "query"

\* the lowest free call slot (0 when every slot is busy)
FreeSlot == IF \E t \in Threads : Idle(t) THEN CHOOSE t \in Threads : Idle(t) /\ \A u \in Threads : u < t => ~Idle(u) ELSE 0

\* the application may issue a call now
MayCall ==
  /\ ncalls < CallLimit
  /\ FreeSlot # 0
  /\ IF Overlap THEN TRUE
     ELSE \A t \in Threads : IF Idle(t) THEN TRUE ELSE thr[t][1].op = "reconnect"

\* what a request sent on connection c can come back with: a connection that
\* is not listening to a running process rejects every request
RpcOutcomes(c) ==
  IF c # 0 /\ conns[c].status = "listening" /\ procs[conns[c].proc].status = "running"
  THEN {"ok", "err"}
  ELSE {"err"}

\* ------------------------------------------------------------------ start()
\* if (this.state === "connected") return;
AlreadyConnected_Unchecked == FALSE

AlreadyConnected == state = "connected"

\* the result of a start() that returned at the connected check
NoOpRet == [OkRet("start") EXCEPT !.log = <<LogEntry("already connected", 0, 0, TRUE, 0)>>]

\* this.state = "connected" after the try body, this.state = "error" in the catch
StateAfterStart_Optimistic(ok) == "connected"

StateAfterStart(ok) == IF ok THEN "connected" ELSE "error"

\* The synchronous head of start(): the connected check, state = connecting and
\* the executor of startCLIServer's promise (spawn and, in stdio mode, resolve).
StartEnter(t, base) ==
  IF AlreadyConnected
  THEN /\ Return(t, base, NoOpRet)
       /\ UNCHANGED <<clientVars, worldVars>>
  ELSE /\ state' = "connecting"
       /\ \E outcome \in {"throw", "noent", "run"} :
            IF outcome = "throw"
            THEN \* spawn() itself throws: the promise is rejected, cliProcess is not assigned
                 /\ Suspend(t, base, [Frame("start", "await_cli") EXCEPT !.cerr = "spawn threw"])
                 /\ UNCHANGED <<cliProcess, procs>>
            ELSE /\ FreshProc # 0
                 /\ cliProcess' = FreshProc
                 /\ procs' = [procs EXCEPT ![FreshProc] =
                       [status |-> IF outcome = "run" THEN "running" ELSE "spawnerr",
                        ready  |-> IF options.useStdio THEN "resolved" ELSE "pending",
                        rerr   |-> ""]]
                 /\ Suspend(t, base, [Frame("start", "await_cli") EXCEPT !.proc = FreshProc])
       /\ UNCHANGED <<connection, socket, actualPort, sessions, conns, objs>>

\* connectViaStdio(): a new connection over the pipes of this.cliProcess
ConnectViaStdio(t, f) ==
  IF cliProcess = 0
  THEN /\ Suspend(t, Base(t), [f EXCEPT !.pc = "await_connect", !.cres = "err",
                                        !.cerr = "CLI process not started"])
       /\ UNCHANGED <<connection, socket, conns>>
  ELSE /\ FreshConn # 0
       /\ conns' = [conns EXCEPT ![FreshConn] = [status |-> "listening", proc |-> cliProcess]]
       /\ connection' = FreshConn
       /\ Suspend(t, Base(t), [f EXCEPT !.pc = "await_connect", !.cres = "ok"])
       /\ UNCHANGED socket

\* connectViaTcp(): the port check and new Socket().connect(actualPort)
ConnectViaTcp(t, f) ==
  IF actualPort = 0
  THEN /\ Suspend(t, Base(t), [f EXCEPT !.pc = "await_connect", !.cres = "err",
                                        !.cerr = "Server port not available"])
       /\ UNCHANGED <<connection, socket, conns>>
  ELSE /\ socket' = actualPort
       /\ Suspend(t, Base(t), [f EXCEPT !.pc = "await_connect", !.cres = "pending"])
       /\ UNCHANGED <<connection, conns>>

ConnectToServer(t, f) ==
  IF options.useStdio THEN ConnectViaStdio(t, f) ELSE ConnectViaTcp(t, f)

\* start() resumes after `await this.startCLIServer()`
StartAfterCLI(t) ==
  /\ At(t, "start", "await_cli")
  /\ LET f == Top(t)
         rejected == f.proc = 0 \/ procs[f.proc].ready = "rejected"
     IN  /\ f.proc # 0 => procs[f.proc].ready # "pending"
         /\ IF rejected
            THEN /\ state' = StateAfterStart(FALSE)
                 /\ Return(t, Base(t), ErrRet("start", IF f.proc = 0 THEN f.cerr ELSE procs[f.proc].rerr))
                 /\ UNCHANGED <<connection, socket, conns>>
            ELSE /\ ConnectToServer(t, f)
                 /\ UNCHANGED state
  /\ UNCHANGED <<cliProcess, actualPort, sessions, options, procs, objs, ncalls, scenario, qs>>

\* the socket's connect callback: the connection is built on this.socket
SocketConnect(t) ==
  /\ At(t, "start", "await_connect")
  /\ Top(t).cres = "pending"
  /\ socket # 0
  /\ FreshConn # 0
  /\ conns' = [conns EXCEPT ![FreshConn] = [status |-> "listening", proc |-> socket]]
  /\ connection' = FreshConn
  /\ thr' = [thr EXCEPT ![t] = Append(Base(t), [Top(t) EXCEPT !.cres = "ok"])]
  /\ UNCHANGED <<state, cliProcess, socket, actualPort, sessions, options, procs, objs, ret, ncalls, scenario, qs>>

\* the socket's "error" event
SocketError(t) ==
  /\ At(t, "start", "await_connect")
  /\ Top(t).cres = "pending"
  /\ thr' = [thr EXCEPT ![t] = Append(Base(t), [Top(t) EXCEPT !.cres = "err",
                                   !.cerr = "Failed to connect to CLI server"])]
  /\ UNCHANGED <<clientVars, options, worldVars, ret, ncalls, scenario, qs>>

\* start() resumes after `await this.connectToServer()`
StartAfterConnect(t) ==
  /\ At(t, "start", "await_connect")
  /\ Top(t).cres # "pending"
  /\ state' = StateAfterStart(Top(t).cres = "ok")
  /\ IF Top(t).cres = "ok"
     THEN Return(t, Base(t), OkRet("start"))
     ELSE Return(t, Base(t), ErrRet("start", Top(t).cerr))
  /\ UNCHANGED <<cliProcess, connection, socket, actualPort, sessions, options, worldVars, ncalls, scenario, qs>>

\* ------------------------------------------------------------------- stop()
\* Map.get / Map.set on the registry (a sequence of entries in insertion order)
MapHas(m, k) == \E i \in DOMAIN m : m[i].id = k
MapGet(m, k) == IF MapHas(m, k) THEN m[CHOOSE i \in DOMAIN m : m[i].id = k].obj ELSE 0
MapSet(m, k, v) ==
  IF MapHas(m, k)
  THEN [i \in DOMAIN m |-> IF m[i].id = k THEN [id |-> k, obj |-> v] ELSE m[i]]
  ELSE Append(m, [id |-> k, obj |-> v])

\* Map.clear() seen by the live iterators of stop() calls in flight: every entry
\* they have passed or not yet reached is gone, entries set later are still visited
ResetIter(stack) ==
  [i \in DOMAIN stack |-> IF stack[i].op = "stop" THEN [stack[i] EXCEPT !.idx = 0] ELSE stack[i]]


\* const delay = 100 * Math.pow(2, attempt - 1)
BackoffDelay_OffByOne(attempt) == BaseDelay * 2 ^ attempt

BackoffDelay(attempt) == BaseDelay * 2 ^ (attempt - 1)

\* the three guarded steps after the loop push one error each when they throw
TailErrors_KillSwallowed(errors, dFail, sFail, kFail) ==
  LET e1 == IF dFail THEN Append(errors, StopError("dispose", 0, "")) ELSE errors
  IN  IF sFail THEN Append(e1, StopError("socket", 0, "")) ELSE e1

TailErrors(errors, dFail, sFail, kFail) ==
  LET e1 == IF dFail THEN Append(errors, StopError("dispose", 0, "")) ELSE errors
      e2 == IF sFail THEN Append(e1, StopError("socket", 0, "")) ELSE e1
  IN  IF kFail THEN Append(e2, StopError("kill", 0, "")) ELSE e2

\* this.cliProcess.kill() in its own try block: it runs whether or not the
\* dispose or the socket close before it threw
KillProcess_OneTryBlock(pr, dFail, sFail, kFail) ==
  IF cliProcess # 0 /\ ~dFail /\ ~sFail /\ ~kFail /\ pr[cliProcess].status = "running"
  THEN [pr EXCEPT ![cliProcess].status = "killed"]
  ELSE pr

KillProcess(pr, dFail, sFail, kFail) ==
  IF cliProcess # 0 /\ ~kFail /\ pr[cliProcess].status = "running"
  THEN [pr EXCEPT ![cliProcess].status = "killed"]
  ELSE pr

\* if (lastError) errors.push(new Error(`Failed to destroy session ...`))
PushSessionError_PerAttempt(errors, sid, lastError) ==
  Append(Append(Append(errors, StopError("session", sid, lastError)),
                StopError("session", sid, lastError)),
         StopError("session", sid, lastError))

PushSessionError(errors, sid, lastError) ==
  Append(errors, StopError("session", sid, lastError))

\* stop() after the session loop: clear the registry, dispose the connection,
\* end the socket, kill the process, reset state and port, return the errors
StopTail(t, base, f, pr, cn) ==
  \E dFail \in (IF connection # 0 /\ Faults THEN BOOLEAN ELSE {FALSE}),
     sFail \in (IF socket # 0 /\ Faults THEN BOOLEAN ELSE {FALSE}),
     kFail \in (IF cliProcess # 0 /\ Faults THEN BOOLEAN ELSE {FALSE}) :
    LET e3 == TailErrors(f.errors, dFail, sFail, kFail)
        l1 == IF dFail THEN Append(f.log, LogEntry("dispose", 0, 0, FALSE, 0)) ELSE f.log
        l2 == IF sFail THEN Append(l1, LogEntry("socket", 0, 0, FALSE, 0)) ELSE l1
        l3 == IF kFail THEN Append(l2, LogEntry("kill", 0, 0, FALSE, 0)) ELSE l2
    IN  /\ sessions' = <<>>
        /\ conns' = IF connection # 0 /\ ~dFail
                    THEN [cn EXCEPT ![connection].status = "disposed"]
                    ELSE cn
        /\ connection' = 0
        /\ socket' = 0
        /\ procs' = KillProcess(pr, dFail, sFail, kFail)
        /\ cliProcess' = 0
        /\ state' = "disconnected"
        /\ actualPort' = 0
        /\ thr' = [u \in Threads |-> IF u = t THEN base ELSE ResetIter(thr[u])]
        /\ ret' = [ret EXCEPT ![t] = [OkRet("stop") EXCEPT !.errors = e3, !.log = l3, !.snap = f.snap]]

\* the head of the for-of loop over this.sessions.values(): the next session's
\* first destroy() attempt is sent, or the loop is over; st is the value
\* this.state has when stop() suspends, pr and cn the processes and connections
\* as the event that runs this segment leaves them
StopLoop(t, base, f, st, pr, cn) ==
  IF f.idx < Len(sessions)
  THEN /\ Suspend(t, base, [f EXCEPT !.pc = "await_destroy", !.idx = f.idx + 1,
                                     !.cur = sessions[f.idx + 1].obj,
                                     !.attempt = 1, !.lastError = ""])
       /\ state' = st
       /\ procs' = pr
       /\ conns' = cn
       /\ UNCHANGED <<cliProcess, connection, socket, actualPort, sessions>>
  ELSE StopTail(t, base, f, pr, cn)

\* the frame of a stop() call (log and snap record, for the properties, what the
\* call did and which sessions were registered when it was made)
StopFrame ==
  [Frame("stop", "loop") EXCEPT !.snap = {sessions[i].obj : i \in DOMAIN sessions}]

\* the synchronous head of stop()
StopEnter(t, base, st, pr, cn) ==
  /\ StopLoop(t, base, StopFrame, st, pr, cn)
  /\ UNCHANGED objs

\* CopilotSession.destroy() after its request succeeded: both handler
\* collections are cleared (destroyed records that the process dropped the session)
SessionDestroyed(o) ==
  [objs EXCEPT ![o].eventHandlers = 0, ![o].toolHandlers = {}, ![o].destroyed = TRUE]

\* `await session.destroy()` settles: success clears the session's handlers and
\* leaves the retry loop; a failure is kept as lastError and retried after the
\* backoff delay unless this was the last attempt, which pushes one error
StopAfterDestroy(t) ==
  /\ At(t, "stop", "await_destroy")
  /\ LET f == Top(t) IN
     \E outcome \in RpcOutcomes(objs[f.cur].connection) :
       LET g == [f EXCEPT !.log = Append(f.log, LogEntry("destroy", f.cur, f.attempt, outcome = "ok", 0)),
                          !.lastError = IF outcome = "ok" THEN "" ELSE "destroy failed"]
       IN  IF outcome = "ok"
           THEN /\ objs' = SessionDestroyed(f.cur)
                /\ StopLoop(t, Base(t), g, state, procs, conns)
           ELSE /\ UNCHANGED objs
                /\ IF f.attempt < MaxDestroyAttempts
                   THEN /\ Suspend(t, Base(t), [g EXCEPT !.pc = "backoff",
                               !.log = Append(g.log, LogEntry("delay", f.cur, f.attempt, FALSE, BackoffDelay(f.attempt)))])
                        /\ UNCHANGED <<clientVars, procs, conns>>
                   ELSE StopLoop(t, Base(t),
                          [g EXCEPT !.errors = PushSessionError(f.errors, objs[f.cur].sessionId, g.lastError)],
                          state, procs, conns)
  /\ UNCHANGED <<options, ncalls, scenario, qs>>

\* the backoff timer fires: the next attempt's session.destroy request is sent
StopBackoffDone(t) ==
  /\ At(t, "stop", "backoff")
  /\ Suspend(t, Base(t), [Top(t) EXCEPT !.pc = "await_destroy", !.attempt = Top(t).attempt + 1])
  /\ UNCHANGED <<clientVars, options, worldVars, ncalls, scenario, qs>>

\* the application calls client.stop()
CallStop ==
  /\ MayCall
  /\ ncalls' = ncalls + 1
  /\ StopEnter(FreeSlot, <<>>, state, procs, conns)
  /\ UNCHANGED <<options, scenario, qs>>

\* -------------------------------------------------------------- forceStop()
\* the empty catch blocks: a step that throws is not passed on
ForceStopThrows_Uncaught(dFail, sFail, kFail) ==
  IF dFail THEN TRUE ELSE IF sFail THEN TRUE ELSE kFail

ForceStopThrows(dFail, sFail, kFail) == FALSE

\* forceStop(): no await in its body, so it runs in one piece. The registry is
\* cleared without a destroy request, the connection disposed, the socket
\* destroyed, the process sent SIGKILL; each of the three may throw.
ForceStop(t) ==
  \E dFail \in (IF connection # 0 /\ Faults THEN BOOLEAN ELSE {FALSE}),
     sFail \in (IF socket # 0 /\ Faults THEN BOOLEAN ELSE {FALSE}),
     kFail \in (IF cliProcess # 0 /\ Faults THEN BOOLEAN ELSE {FALSE}) :
    LET l1 == IF connection # 0
              THEN <<LogEntry("dispose", 0, 0, ~dFail, 0)>> ELSE <<>>
        l2 == IF socket # 0
              THEN Append(l1, LogEntry("socket", 0, 0, ~sFail, 0)) ELSE l1
        l3 == IF cliProcess # 0
              THEN Append(l2, LogEntry("kill", 0, 0, ~kFail, 0)) ELSE l2
        snap == {sessions[i].obj : i \in DOMAIN sessions}
    IN  /\ sessions' = <<>>
        /\ IF ForceStopThrows(dFail, sFail, kFail)
           THEN /\ ret' = [ret EXCEPT ![t] = [ErrRet("forceStop", "step failed") EXCEPT !.snap = snap]]
                /\ UNCHANGED <<state, cliProcess, connection, socket, actualPort, procs, conns>>
           ELSE /\ conns' = IF connection # 0 /\ ~dFail
                            THEN [conns EXCEPT ![connection].status = "disposed"]
                            ELSE conns
                /\ connection' = 0
                /\ socket' = 0
                /\ procs' = IF cliProcess # 0 /\ ~kFail /\ procs[cliProcess].status = "running"
                            THEN [procs EXCEPT ![cliProcess].status = "killed"]
                            ELSE procs
                /\ cliProcess' = 0
                /\ state' = "disconnected"
                /\ actualPort' = 0
                /\ ret' = [ret EXCEPT ![t] = [OkRet("forceStop") EXCEPT !.log = l3, !.snap = snap]]
        /\ thr' = [u \in Threads |-> IF u = t THEN <<>> ELSE ResetIter(thr[u])]
        /\ UNCHANGED objs

\* the application calls client.forceStop()
CallForceStop ==
  /\ MayCall
  /\ ncalls' = ncalls + 1
  /\ ForceStop(FreeSlot)
  /\ UNCHANGED <<options, scenario, qs>>

\* ----------------------------------------------------------- createSession()
\* connection.sendRequest("session.create", ...) on this.connection
SendCreate(t, base, f) ==
  IF connection = 0
  THEN \* this.connection! is null: the call throws a TypeError
       Return(t, base, ErrRet("createSession", "TypeError"))
  ELSE Suspend(t, base, [f EXCEPT !.pc = "await_create", !.conn = connection])

\* if (this.options.autoStart) await this.start(); else throw ...
ShouldAutoStart_Always == TRUE

ShouldAutoStart == options.autoStart

\* this.sessions.set(sessionId, session)
RegisterSession_Forgotten(m, sid, o) == m

RegisterSession(m, sid, o) == MapSet(m, sid, o)

\* this.sessions.get(sessionId) of the two inbound handlers
Route(sid) == MapGet(sessions, sid)

\* the synchronous head of createSession(config)
CreateSessionEnter(t, base, tools) ==
  LET f == [Frame("createSession", "await_start") EXCEPT !.tools = tools] IN
  IF connection = 0
  THEN IF ShouldAutoStart
       THEN StartEnter(t, Append(base, f))
       ELSE /\ Return(t, base, ErrRet("createSession", "Client not connected. Call start() first."))
            /\ UNCHANGED <<clientVars, worldVars>>
  ELSE /\ SendCreate(t, base, f)
       /\ UNCHANGED <<clientVars, worldVars>>

\* createSession() resumes after `await this.start()`
CreateSessionAfterStart(t) ==
  /\ At(t, "createSession", "await_start")
  /\ IF ret[t].ok
     THEN SendCreate(t, Base(t), Top(t))
     ELSE Return(t, Base(t), ErrRet("createSession", ret[t].err))
  /\ UNCHANGED <<clientVars, options, worldVars, ncalls, scenario, qs>>

\* the response to session.create arrives: the session is constructed on
\* this.connection, its tools are registered and it is put into the registry
CreateSessionResponse(t) ==
  /\ At(t, "createSession", "await_create")
  /\ LET f == Top(t) IN
     \E outcome \in RpcOutcomes(f.conn) :
       IF outcome = "ok"
       THEN \E sid \in {FreshObj} :
              /\ FreshObj # 0
              /\ objs' = [objs EXCEPT ![FreshObj] =
                    [sessionId |-> sid, connection |-> connection,
                     toolHandlers |-> f.tools, eventHandlers |-> 0, destroyed |-> FALSE]]
              /\ sessions' = RegisterSession(sessions, sid, FreshObj)
              /\ Return(t, Base(t), [OkRet("createSession") EXCEPT !.obj = FreshObj])
       ELSE /\ Return(t, Base(t), ErrRet("createSession", "session.create failed"))
            /\ UNCHANGED <<objs, sessions>>
  /\ UNCHANGED <<state, cliProcess, connection, socket, actualPort, options, procs, conns, ncalls, scenario, qs>>

\* the application calls client.createSession(config)
CallCreateSession ==
  /\ MayCall
  /\ ncalls' = ncalls + 1
  /\ \E tools \in SUBSET ToolNames : CreateSessionEnter(FreeSlot, <<>>, tools)
  /\ UNCHANGED <<options, scenario, qs>>

\* ------------------------------------------------------- reconnect(), events
\* reconnect(): this.state = "disconnected", then the head of stop()
ReconnectEnter(t, pr, cn) ==
  StopEnter(t, <<Frame("reconnect", "await_stop")>>, "disconnected", pr, cn)

\* reconnect() resumes after `await this.stop()` and calls start()
ReconnectAfterStop(t) ==
  /\ At(t, "reconnect", "await_stop")
  /\ StartEnter(t, <<[Top(t) EXCEPT !.pc = "await_start"]>>)
  /\ UNCHANGED <<options, ncalls, scenario, qs>>

\* reconnect() resumes after `await this.start()`: a failure is swallowed
ReconnectAfterStart(t) ==
  /\ At(t, "reconnect", "await_start")
  /\ Return(t, <<>>, [OkRet("reconnect") EXCEPT !.err = ret[t].err])
  /\ UNCHANGED <<clientVars, options, worldVars, ncalls, scenario, qs>>

\* the handler both cliProcess.on("exit") (once resolved) and connection.onClose
\* run: reconnect() when auto-restart is on and the state is connected
AutoRestarts_AnyState == options.autoRestart

AutoRestarts == options.autoRestart /\ state = "connected"

MaybeReconnect(pr, cn) ==
  IF AutoRestarts
  THEN /\ FreeSlot # 0
       /\ ReconnectEnter(FreeSlot, pr, cn)
  ELSE /\ procs' = pr
       /\ conns' = cn
       /\ UNCHANGED <<clientVars, objs, thr, ret>>

\* settles startCLIServer's promise unless it is settled (the `resolved` flag)
Settle_Unguarded(p, how, msg) ==
  [procs EXCEPT ![p].ready = how, ![p].rerr = msg]

Settle(p, how, msg) ==
  IF procs[p].ready = "pending"
  THEN [procs EXCEPT ![p].ready = how, ![p].rerr = msg]
  ELSE procs

\* cliProcess.on("exit"): the process (killed or not) exits
ExitCodes(p) == IF procs[p].status = "killed" THEN {"null"} ELSE {"0", "1"}
ExitMessage(code) == "CLI server exited with code " \o code

ProcExit(p, code) ==
  /\ procs[p].status \in (IF Crashes THEN {"running", "killed"} ELSE {"killed"})
  /\ LET pr == [Settle(p, "rejected", ExitMessage(code)) EXCEPT ![p].status = "exited"] IN
     IF procs[p].ready = "pending"
     THEN /\ procs' = pr
          /\ UNCHANGED <<clientVars, conns, objs, thr, ret>>
     ELSE MaybeReconnect(pr, conns)
  /\ UNCHANGED <<options, ncalls, scenario, qs>>

\* cliProcess.on("error"): the operating system could not start the process
ProcError(p) ==
  /\ procs[p].status = "spawnerr"
  /\ procs' = [Settle(p, "rejected", "Failed to start CLI server") EXCEPT ![p].status = "failed"]
  /\ UNCHANGED <<clientVars, options, conns, objs, thr, ret, ncalls, scenario, qs>>

\* ---------------------------------------------- the port announcement (TCP)
\* text is a sequence of characters
Pattern == <<"l", "i", "s", "t", "e", "n", "i", "n", "g", " ", "o", "n", " ",
             "p", "o", "r", "t", " ">>

\* \d
IsDigit(c) == c \in {"0", "1", "2", "3", "4", "5", "6", "7", "8", "9"}

\* the i flag of the pattern, over the letters a server writes in upper case
Lower(c) == IF c = "L" THEN "l" ELSE c

\* the decimal digits of n, as toString() and the server print them
RECURSIVE Decimal(_)
Decimal(n) ==
  IF n < 10 THEN <<ToString(n)>> ELSE Decimal(n \div 10) \o <<ToString(n % 10)>>

\* parseInt(digits, 10)
RECURSIVE ParseInt(_)
ParseInt(ds) ==
  IF ds = <<>> THEN 0
  ELSE 10 * ParseInt(SubSeq(ds, 1, Len(ds) - 1))
       + (CHOOSE d \in 0..9 : ToString(d) = ds[Len(ds)])

\* the pattern followed by one digit starts at position i of text
MatchesAt(text, i) ==
  /\ i + Len(Pattern) <= Len(text)
  /\ \A j \in 1..Len(Pattern) : Lower(text[i + j - 1]) = Pattern[j]
  /\ IsDigit(text[i + Len(Pattern)])

\* (\d+): the longest run of digits from position i
RECURSIVE DigitRun(_, _)
DigitRun(text, i) ==
  IF i > Len(text) THEN <<>>
  ELSE IF IsDigit(text[i]) THEN <<text[i]>> \o DigitRun(text, i + 1) ELSE <<>>

\* stdout.match(/listening on port (\d+)/i): match[1] of the leftmost match,
\* <<>> when match is null
Match(text) ==
  IF \E i \in 1..Len(text) : MatchesAt(text, i)
  THEN LET i == CHOOSE k \in 1..Len(text) :
                  MatchesAt(text, k) /\ \A m \in 1..(k - 1) : ~MatchesAt(text, m)
       IN  DigitRun(text, i + Len(Pattern))
  ELSE <<>>

\* what a server bound to port n writes: an optional banner line, then the
\* announcement line
Banner == <<"v", "1", "\n">>
Announcement(n, banner, capital) ==
  (IF banner THEN Banner ELSE <<>>)
  \o <<IF capital THEN "L" ELSE "l">> \o SubSeq(Pattern, 2, Len(Pattern))
  \o Decimal(n) \o <<"\n">>

\* stdout "data" with the next k characters the process has written
StdoutData(p, k) ==
  /\ scenario = "tcp"
  /\ procs[p].status = "running"
  /\ cliProcess = p
  /\ k \in 1..Len(cli.unread)
  /\ LET stdout == cli.stdout \o SubSeq(cli.unread, 1, k)
         match  == Match(stdout)
     IN  /\ cli' = [cli EXCEPT !.stdout = stdout,
                               !.unread = SubSeq(cli.unread, k + 1, Len(cli.unread))]
         /\ IF match # <<>> /\ procs[p].ready = "pending"
            THEN /\ actualPort' = ParseInt(match)
                 /\ procs' = Settle(p, "resolved", "")
            ELSE UNCHANGED <<actualPort, procs>>
  /\ UNCHANGED <<state, cliProcess, connection, socket, sessions, options, conns, objs,
                 thr, ret, ncalls, scenario, qs, sx, tcall, pureVars>>

\* stdout "data": the process announces "listening on port N" (TCP mode)
PortAnnounce(p) ==
  /\ procs[p].status = "running"
  /\ procs[p].ready = "pending"
  /\ actualPort' = p
  /\ procs' = Settle(p, "resolved", "")
  /\ UNCHANGED <<state, cliProcess, connection, socket, sessions, options, conns, objs, thr, ret, ncalls, scenario, qs>>

\* the 10 second timer of startCLIServer
ReadyTimeout(p) ==
  /\ procs[p].status # "none"
  /\ procs[p].ready = "pending"
  /\ procs' = Settle(p, "rejected", "Timeout waiting for CLI server to start")
  /\ UNCHANGED <<clientVars, options, conns, objs, thr, ret, ncalls, scenario, qs>>

\* connection.onClose: the channel closes under a listening connection
ConnClose(c) ==
  /\ conns[c].status = "listening"
  /\ IF Crashes THEN TRUE ELSE procs[conns[c].proc].status # "running"
  /\ MaybeReconnect(procs, [conns EXCEPT ![c].status = "closed"])
  /\ UNCHANGED <<options, ncalls, scenario, qs>>

\* ------------------------------------------------------------------ query()
\* new Error(`Query timed out after ${timeout}ms`)
TimeoutMessage == "Query timed out after " \o ToString(Timeout) \o "ms"

\* the catch clause: an AbortError caught while the signal is aborted becomes
\* the timeout error, every other error is thrown on as it is
CatchClause_Rethrow(err, aborted) == err

CatchClause(err, aborted) ==
  IF aborted /\ err = "AbortError" THEN TimeoutMessage ELSE err

\* "message" in event.data ? String(event.data.message) : "Unknown error"
SessionErrorMessage_Fixed(event) == "Unknown error"

SessionErrorMessage(event) ==
  IF event.hasMessage THEN "model overloaded" ELSE "Unknown error"

\* const { includeEphemeral = true } = options
IncludeEphemeral(opt) == IF opt = "undefined" THEN TRUE ELSE opt = "true"

\* if (event.ephemeral && !includeEphemeral) continue;
Withheld_Inverted(event, include) == event.ephemeral /\ include

Withheld(event, include) == event.ephemeral /\ ~include

\* if (event.type === "session.idle") await eventIterator.return!()
EndsTurn(event) == event.type = "session.idle"

\* events.on(): errorHandler(err) of the iterator.  The error is kept for the
\* next next() and the listeners are removed.
IterError(q, err) == [q EXCEPT !.ierr = err, !.iter = "finished"]

\* the body of the for-await loop for the event it was handed, up to the next
\* suspension: the event is dropped ("continue"), thrown as the session's
\* error (the loop then closes the iterator) or yielded
LoopBody(q, e) ==
  LET q1 == [q EXCEPT !.taken = Append(@, e)] IN
  IF Withheld(e, IncludeEphemeral(q.includeEphemeral))
  THEN [q |-> q1, ctl |-> "continue", err |-> ""]
  ELSE IF e.type = "session.error"
  THEN [q |-> [q1 EXCEPT !.iter = "finished"], ctl |-> "throw",
        err |-> SessionErrorMessage(e)]
  ELSE [q |-> [q1 EXCEPT !.out = Append(@, e)], ctl |-> "yield", err |-> ""]

\* the loop asks the iterator for its next element: next() hands over the
\* buffered events first, then the error that was kept, then the end of an
\* iterator that is finished; otherwise the loop is parked until something
\* happens
RECURSIVE LoopTurn(_)
LoopTurn(q) ==
  IF q.pending # <<>>
  THEN LET r == LoopBody([q EXCEPT !.pending = Tail(@)], Head(q.pending)) IN
       IF r.ctl = "continue" THEN LoopTurn(r.q) ELSE r
  ELSE IF q.ierr # ""
  THEN [q |-> [q EXCEPT !.ierr = ""], ctl |-> "throw", err |-> q.ierr]
  ELSE IF q.iter = "finished"
  THEN [q |-> q, ctl |-> "done", err |-> ""]
  ELSE [q |-> q, ctl |-> "park", err |-> ""]

\* the finally block up to `await session?.destroy()`: the turn is marked
\* finished, the timer cleared and the session's destroy request sent
FinallyEnter(t, q, exit, thrown) ==
  /\ qs' = [q EXCEPT !.turnFinished = TRUE,
                     !.timer = IF q.timer = "armed" THEN "cleared" ELSE q.timer,
                     !.iter = IF q.iter = "open" THEN "finished" ELSE q.iter,
                     !.exit = exit, !.thrown = thrown,
                     !.err = CatchClause(thrown, q.timer = "fired")]
  /\ Suspend(t, <<>>, Frame("query", "await_destroy"))

\* query() goes on from the outcome r of a turn of its loop
Continue(t, r) ==
  CASE r.ctl = "park"  -> /\ qs' = r.q
                          /\ Suspend(t, <<>>, Frame("query", "await_event"))
    [] r.ctl = "yield" -> /\ qs' = r.q
                          /\ Suspend(t, <<>>, Frame("query", "at_yield"))
    [] r.ctl = "throw" -> FinallyEnter(t, r.q, "threw", r.err)
    [] OTHER           -> FinallyEnter(t, r.q, "returned", "")

\* the application iterates query(options): the timer is armed and
\* client.start() is called
CallQuery ==
  /\ scenario = "query"
  /\ ncalls = 0
  /\ ncalls' = 1
  /\ \E opt \in IncludeEphemeralOptions :
       qs' = [qs EXCEPT !.timer = "armed", !.includeEphemeral = opt]
  /\ StartEnter(1, <<Frame("query", "await_start")>>)
  /\ UNCHANGED <<options, scenario>>

\* query() resumes after `await client.start()` and calls createSession
QueryAfterStart(t) ==
  /\ At(t, "query", "await_start")
  /\ IF ret[t].ok
     THEN /\ \E tools \in SUBSET ToolNames :
               CreateSessionEnter(t, <<[Top(t) EXCEPT !.pc = "await_session"]>>, tools)
          /\ UNCHANGED qs
     ELSE /\ FinallyEnter(t, qs, "threw", ret[t].err)
          /\ UNCHANGED <<clientVars, worldVars>>
  /\ UNCHANGED <<options, ncalls, scenario>>

\* query() resumes after `await client.createSession()`: the handler is
\* subscribed, the iterator opened on the abort signal, send() issued and the
\* loop parked in its first next().  events.on() throws an AbortError when
\* the signal is aborted already.
QueryAfterCreate(t) ==
  /\ At(t, "query", "await_session")
  /\ IF ret[t].ok
     THEN /\ objs' = [objs EXCEPT ![ret[t].obj].eventHandlers = @ + 1]
          /\ IF qs.timer = "fired"
             THEN FinallyEnter(t, [qs EXCEPT !.session = ret[t].obj], "threw", "AbortError")
             ELSE /\ qs' = [qs EXCEPT !.session = ret[t].obj, !.iter = "open",
                                      !.send = "pending"]
                  /\ Suspend(t, <<>>, [Top(t) EXCEPT !.pc = "await_event"])
     ELSE /\ FinallyEnter(t, qs, "threw", ret[t].err)
          /\ UNCHANGED objs
  /\ UNCHANGED <<clientVars, options, procs, conns, ncalls, scenario>>

\* the loop of the query is parked in next()
Parked == At(1, "query", "await_event")

\* !turnFinished && eventIterator.throw!(sendError)
SendFailureThrown_Always(turnFinished) == TRUE

SendFailureThrown(turnFinished) == ~turnFinished

\* the session.send request settles; unless the turn is finished its failure
\* is thrown into the iterator: it ends a parked loop, otherwise it is kept
SendSettles ==
  /\ qs.send = "pending"
  /\ \E outcome \in RpcOutcomes(objs[qs.session].connection) :
       LET q == [qs EXCEPT !.send = outcome] IN
       IF outcome = "err" /\ SendFailureThrown(qs.turnFinished)
       THEN IF Parked
            THEN FinallyEnter(1, q, "threw", "send failed")
            ELSE qs' = IterError(q, "send failed") /\ UNCHANGED <<thr, ret>>
       ELSE qs' = q /\ UNCHANGED <<thr, ret>>
  /\ UNCHANGED <<clientVars, options, worldVars, ncalls, scenario>>

\* the timeout timer fires: abortController.abort().  The abort listener of an
\* open iterator ends a parked loop with an AbortError, otherwise the
\* AbortError is kept.
QueryTimeout ==
  /\ qs.timer = "armed"
  /\ LET q == [qs EXCEPT !.timer = "fired"] IN
     IF qs.iter = "open"
     THEN IF Parked
          THEN FinallyEnter(1, q, "threw", "AbortError")
          ELSE qs' = IterError(q, "AbortError") /\ UNCHANGED <<thr, ret>>
     ELSE qs' = q /\ UNCHANGED <<thr, ret>>
  /\ UNCHANGED <<clientVars, options, worldVars, ncalls, scenario>>

\* the events the process may send: a session.error carries a message or not
Events(n) ==
  {e \in [type : EventTypes, ephemeral : BOOLEAN, hasMessage : BOOLEAN, n : {n}] :
     e.hasMessage => e.type = "session.error"}

\* eventEmitter.emit("data", event) with the loop not waiting: the iterator
\* appends the event to its buffer
Buffer_Front(buf, e) == <<e>> \o buf

Buffer(buf, e) == Append(buf, e)

\* handleSessionEventNotification: a session.event notification for session
\* id sid arrives on connection c and is dispatched to the registered session,
\* whose handler emits it to the iterator: a parked loop takes it, otherwise
\* it is buffered.  Without a session, a handler or a listening iterator the
\* notification changes nothing; n counts the events that reach the iterator.
SessionEventNotification(c, sid, e) ==
  /\ scenario \in {"query", "stream"}
  /\ qs.sent < EventLimit
  /\ e.n = qs.sent + 1
  /\ conns[c].status = "listening"
  /\ procs[conns[c].proc].status = "running"
  /\ \E o \in Objs : objs[o].sessionId = sid
  /\ LET o == Route(sid)
         q == [qs EXCEPT !.sent = @ + 1]
     IN  IF o # 0 /\ o = qs.session /\ objs[o].eventHandlers > 0 /\ qs.iter = "open"
         THEN IF Parked
              THEN Continue(1, LET r == LoopBody(q, e) IN
                               IF r.ctl = "continue" THEN [r EXCEPT !.ctl = "park"] ELSE r)
              ELSE /\ qs' = [q EXCEPT !.pending = Buffer(@, e)]
                   /\ UNCHANGED <<thr, ret>>
         ELSE UNCHANGED <<qs, thr, ret>>
  /\ UNCHANGED <<clientVars, options, worldVars, ncalls, scenario>>

\* the consumer asks for the next element: query() resumes after its yield,
\* closes the iterator if the event it yielded ends the turn, and goes round
\* its loop
ConsumerNext(t) ==
  /\ At(t, "query", "at_yield")
  /\ LET q == IF EndsTurn(qs.out[Len(qs.out)])
              THEN [qs EXCEPT !.iter = "finished"] ELSE qs
     IN  Continue(t, LoopTurn(q))
  /\ UNCHANGED <<clientVars, options, worldVars, ncalls, scenario>>

\* the finally block resumes after `await session?.destroy()`: a rejected
\* destroy leaves the block, otherwise client.stop() is called
QueryAfterDestroy(t) ==
  /\ At(t, "query", "await_destroy")
  /\ IF qs.session = 0
     THEN /\ StopEnter(t, <<[Top(t) EXCEPT !.pc = "await_stop"]>>, state, procs, conns)
          /\ UNCHANGED qs
     ELSE \E outcome \in RpcOutcomes(objs[qs.session].connection) :
            IF outcome = "ok"
            THEN /\ objs' = SessionDestroyed(qs.session)
                 /\ StopLoop(t, <<[Top(t) EXCEPT !.pc = "await_stop"]>>, StopFrame,
                             state, procs, conns)
                 /\ UNCHANGED qs
            ELSE /\ qs' = [qs EXCEPT !.outcome = "threw", !.err = "session.destroy failed"]
                 /\ Return(t, <<>>, ErrRet("query", "session.destroy failed"))
                 /\ UNCHANGED <<clientVars, worldVars>>
  /\ UNCHANGED <<options, ncalls, scenario>>

\* the event the finally block yields for the errors stop() returned
CleanupEvent == [type |-> "error", ephemeral |-> FALSE, hasMessage |-> TRUE, n |-> 0]

\* if (cleanupErrors.length > 0) yield { type: "error", ... }
YieldsCleanup_Never(errors) == FALSE

YieldsCleanup(errors) == errors # <<>>

\* the finally block resumes after `await client.stop()`: cleanup errors are
\* yielded as one synthetic error event and the generator ends
QueryAfterStop(t) ==
  /\ At(t, "query", "await_stop")
  /\ qs' = [qs EXCEPT !.stopRan = TRUE, !.outcome = qs.exit,
                      !.cleanup = Len(ret[t].errors),
                      !.out = IF YieldsCleanup(ret[t].errors)
                              THEN Append(@, CleanupEvent) ELSE @]
  /\ Return(t, <<>>, IF qs.exit = "threw" THEN ErrRet("query", qs.err) ELSE OkRet("query"))
  /\ UNCHANGED <<clientVars, options, worldVars, ncalls, scenario>>

\* the application calls client.start()
CallStart ==
  /\ MayCall
  /\ ncalls' = ncalls + 1
  /\ StartEnter(FreeSlot, <<>>)
  /\ UNCHANGED <<options, scenario, qs>>

Next ==
  \/ CallStart
  \/ CallStop
  \/ CallCreateSession
  \/ \E t \in Threads : StopAfterDestroy(t)
  \/ \E t \in Threads : StopBackoffDone(t)
  \/ \E t \in Threads : CreateSessionAfterStart(t)
  \/ \E t \in Threads : CreateSessionResponse(t)
  \/ \E t \in Threads : ReconnectAfterStop(t)
  \/ \E t \in Threads : ReconnectAfterStart(t)
  \/ \E p \in Procs : \E code \in ExitCodes(p) : ProcExit(p, code)
  \/ \E p \in Procs : ProcError(p)
  \/ \E p \in Procs : PortAnnounce(p)
  \/ \E p \in Procs : ReadyTimeout(p)
  \/ \E c \in Conns : ConnClose(c)
  \/ \E t \in Threads : StartAfterCLI(t)
  \/ \E t \in Threads : SocketConnect(t)
  \/ \E t \in Threads : SocketError(t)
  \/ \E t \in Threads : StartAfterConnect(t)

Spec == Init /\ [][Next /\ UNCHANGED unitVars]_vars
\* the client used by an application that awaits each call, without auto-restart
NextSeq ==
  \/ CallStart
  \/ CallStop
  \/ CallForceStop
  \/ CallCreateSession
  \/ \E t \in Threads : StartAfterCLI(t)
  \/ \E t \in Threads : SocketConnect(t)
  \/ \E t \in Threads : SocketError(t)
  \/ \E t \in Threads : StartAfterConnect(t)
  \/ \E t \in Threads : StopAfterDestroy(t)
  \/ \E t \in Threads : StopBackoffDone(t)
  \/ \E t \in Threads : CreateSessionAfterStart(t)
  \/ \E t \in Threads : CreateSessionResponse(t)
  \/ \E p \in Procs : \E code \in ExitCodes(p) : ProcExit(p, code)
  \/ \E p \in Procs : ProcError(p)
  \/ \E p \in Procs : PortAnnounce(p)
  \/ \E p \in Procs : ReadyTimeout(p)
  \/ \E c \in Conns : ConnClose(c)

SpecSeq == InitSeq /\ [][NextSeq /\ UNCHANGED unitVars]_vars

\* one query() over its private client
NextQuery ==
  \/ CallQuery
  \/ \E t \in Threads : QueryAfterStart(t)
  \/ \E t \in Threads : QueryAfterCreate(t)
  \/ \E t \in Threads : ConsumerNext(t)
  \/ \E t \in Threads : QueryAfterDestroy(t)
  \/ \E t \in Threads : QueryAfterStop(t)
  \/ SendSettles
  \/ QueryTimeout
  \/ \E c \in Conns, o \in Objs, e \in Events(qs.sent + 1) :
       SessionEventNotification(c, o, e)
  \/ \E t \in Threads : StartAfterCLI(t)
  \/ \E t \in Threads : StartAfterConnect(t)
  \/ \E t \in Threads : StopAfterDestroy(t)
  \/ \E t \in Threads : StopBackoffDone(t)
  \/ \E t \in Threads : CreateSessionAfterStart(t)
  \/ \E t \in Threads : CreateSessionResponse(t)
  \/ \E t \in Threads : ReconnectAfterStop(t)
  \/ \E t \in Threads : ReconnectAfterStart(t)
  \/ \E p \in Procs : \E code \in ExitCodes(p) : ProcExit(p, code)
  \/ \E p \in Procs : ProcError(p)
  \/ \E c \in Conns : ConnClose(c)

SpecQuery == InitQuery /\ [][NextQuery /\ UNCHANGED unitVars]_vars

\* a query() that has started its client, created session 1 and entered its
\* loop: the handler is subscribed, the iterator open, send() in flight
StreamOpened ==
  /\ state = "connected"
  /\ cliProcess = 1
  /\ connection = 1
  /\ socket = 0
  /\ actualPort = 0
  /\ sessions = <<[id |-> 1, obj |-> 1]>>
  /\ procs = [p \in Procs |-> IF p = 1 THEN [status |-> "running", ready |-> "resolved",
                                             rerr |-> ""] ELSE NoProc]
  /\ conns = [c \in Conns |-> IF c = 1 THEN [status |-> "listening", proc |-> 1] ELSE NoConn]
  /\ \E tools \in SUBSET ToolNames :
       objs = [o \in Objs |-> IF o = 1
                              THEN [sessionId |-> 1, connection |-> 1, toolHandlers |-> tools,
                                    eventHandlers |-> 1, destroyed |-> FALSE]
                              ELSE NoObj]
  /\ thr = [t \in Threads |-> IF t = 1 THEN <<Frame("query", "await_event")>> ELSE <<>>]
  /\ ret = [t \in Threads |-> NoRet]
  /\ ncalls = 1
  /\ \E opt \in IncludeEphemeralOptions :
       qs = [NoQuery EXCEPT !.timer = "armed", !.includeEphemeral = opt, !.session = 1,
                            !.iter = "open", !.send = "pending"]
  /\ options = [useStdio |-> TRUE, autoStart |-> TRUE, autoRestart |-> TRUE]

InitStream ==
  /\ StreamOpened
  /\ sx = NoSession
  /\ tcall = NoToolCall
  /\ cli = NoOutput
  /\ PureIdle
  /\ scenario = "stream"

\* the loop of a query up to its finally block
NextStream ==
  \/ \E c \in Conns, o \in Objs, e \in Events(qs.sent + 1) :
       SessionEventNotification(c, o, e)
  \/ \E t \in Threads : ConsumerNext(t)
  \/ SendSettles
  \/ QueryTimeout

SpecStream == InitStream /\ [][NextStream /\ UNCHANGED unitVars]_vars

\* a start() in TCP mode that has spawned process 1, bound to some port, and
\* waits for the announcement
TcpSpawned ==
  /\ state = "connecting"
  /\ cliProcess = 1
  /\ connection = 0
  /\ socket = 0
  /\ actualPort = 0
  /\ sessions = <<>>
  /\ procs = [p \in Procs |-> IF p = 1 THEN [status |-> "running", ready |-> "pending",
                                             rerr |-> ""] ELSE NoProc]
  /\ conns = [c \in Conns |-> NoConn]
  /\ objs = [o \in Objs |-> NoObj]
  /\ thr = [t \in Threads |-> IF t = 1 THEN <<[Frame("start", "await_cli") EXCEPT !.proc = 1]>>
                                       ELSE <<>>]
  /\ ret = [t \in Threads |-> NoRet]
  /\ ncalls = 1
  /\ qs = NoQuery
  /\ options \in [useStdio : {FALSE}, autoStart : BOOLEAN, autoRestart : {FALSE}]

InitTcp ==
  /\ TcpSpawned
  /\ sx = NoSession
  /\ tcall = NoToolCall
  /\ PureIdle
  /\ scenario = "tcp"
  /\ \E n \in 1..MaxPort, banner \in BOOLEAN, capital \in BOOLEAN :
       cli = [port |-> n, unread |-> Announcement(n, banner, capital), stdout |-> <<>>]

\* start() from the spawn to its return, the announcement arriving in chunks
NextTcp ==
  \/ \E p \in Procs, k \in 1..MaxChunk : StdoutData(p, k)
  \/ (\E p \in Procs : ReadyTimeout(p)) /\ UNCHANGED unitVars
  \/ (\E t \in Threads : StartAfterCLI(t)) /\ UNCHANGED unitVars
  \/ (\E t \in Threads : SocketConnect(t)) /\ UNCHANGED unitVars
  \/ (\E t \in Threads : SocketError(t)) /\ UNCHANGED unitVars
  \/ (\E t \in Threads : StartAfterConnect(t)) /\ UNCHANGED unitVars

SpecTcp == InitTcp /\ [][NextTcp]_vars

\* ------------------------------------------- constructor and argument list
\* an optional property of the options object: absent, or present with a value
Absent(v)  == [set |-> FALSE, v |-> v]
Given(v)   == [set |-> TRUE, v |-> v]
LogLevels  == {"none", "error", "warning", "info", "debug", "all"}
ArgLists   == {<<>>, <<"--banner">>, <<"--banner", "--no-color">>}
\* types.ts: CopilotClientOptions, the properties the argument list depends on
ClientOptions ==
  [cliArgs  : {Absent(<<>>)} \cup {Given(a) : a \in ArgLists},
   port     : {Absent(0)} \cup {Given(n) : n \in 0..MaxArgPort},
   useStdio : {Absent(FALSE), Given(TRUE), Given(FALSE)},
   logLevel : {Absent("info")} \cup {Given(l) : l \in LogLevels}]

\* the constructor: `??` replaces an absent value, `||` a falsy one as well
ResolveOptions(o) ==
  [cliArgs  |-> IF o.cliArgs.set THEN o.cliArgs.v ELSE <<>>,
   port     |-> IF o.port.set /\ o.port.v # 0 THEN o.port.v ELSE 0,
   useStdio |-> IF o.useStdio.set THEN o.useStdio.v ELSE TRUE,
   logLevel |-> IF o.logLevel.set /\ o.logLevel.v # "" THEN o.logLevel.v ELSE "info"]

\* startCLIServer: the flag that chooses the transport
TransportArgs_PortAlways(o) ==
  IF o.useStdio THEN <<"--stdio">> ELSE <<"--port", ToString(o.port)>>

TransportArgs(o) ==
  IF o.useStdio THEN <<"--stdio">>
  ELSE IF o.port > 0 THEN <<"--port", ToString(o.port)>>
  ELSE <<>>

\* startCLIServer: const args = [...cliArgs, "--server", "--log-level", logLevel]
SpawnArgs(o) ==
  o.cliArgs \o <<"--server", "--log-level", o.logLevel>> \o TransportArgs(o)

notArgv == <<clientVars, options, worldVars, thr, ret, ncalls, scenario, qs,
             sx, tcall, cli, ak, store, nt>>

\* new CopilotClient(options)
Construct ==
  /\ argv.pc = "given"
  /\ argv' = [argv EXCEPT !.pc = "constructed", !.options = ResolveOptions(argv.given)]
  /\ UNCHANGED notArgv

\* startCLIServer up to spawn(cliPath, args, ...)
BuildArgs ==
  /\ argv.pc = "constructed"
  /\ argv' = [argv EXCEPT !.pc = "spawned", !.args = SpawnArgs(argv.options)]
  /\ UNCHANGED notArgv

InitArgs ==
  /\ NewClient
  /\ ak = NoAsk
  /\ store = NoStore
  /\ nt = NoNotification
  /\ options = [useStdio |-> TRUE, autoStart |-> TRUE, autoRestart |-> TRUE]
  /\ scenario = "args"
  /\ \E o \in ClientOptions : argv = [NoArgv EXCEPT !.pc = "given", !.given = o]

NextArgs ==
  \/ Construct
  \/ BuildArgs

SpecArgs == InitArgs /\ [][NextArgs]_vars

\* ============================================================ sessionStorage

\* type OfficeHost (two of its three members)
Hosts == {"excel", "word"}

\* the ids of the sessions saved
SessionIds == 1..MaxSessionIds

\* the scope keys the callers pass, as sequences of characters:
\* "d_1", "d 1", "d_2" and " "
ScopeKeys == {<<"d", "_", "1">>, <<"d", " ", "1">>, <<"d", "_", "2">>, <<" ">>}

\* a SavedSession: its id and, for its content, the time it was written
SavedSession(i, at) == [id |-> i, updatedAt |-> at]
NoSaved == SavedSession(0, 0)

\* the characters /[^a-zA-Z0-9_-]/ leaves alone
WordChars ==
  {"a", "b", "c", "d", "e", "f", "g", "h", "i", "j", "k", "l", "m",
   "n", "o", "p", "q", "r", "s", "t", "u", "v", "w", "x", "y", "z",
   "A", "B", "C", "D", "E", "F", "G", "H", "I", "J", "K", "L", "M",
   "N", "O", "P", "Q", "R", "S", "T", "U", "V", "W", "X", "Y", "Z",
   "0", "1", "2", "3", "4", "5", "6", "7", "8", "9", "_", "-"}

\* String.prototype.trim() on the characters the model uses
RECURSIVE TrimStart(_)
TrimStart(k) == IF k # <<>> /\ Head(k) = " " THEN TrimStart(Tail(k)) ELSE k
RECURSIVE TrimEnd(_)
TrimEnd(k) ==
  IF k # <<>> /\ k[Len(k)] = " " THEN TrimEnd(SubSeq(k, 1, Len(k) - 1)) ELSE k
Trim(k) == TrimEnd(TrimStart(k))

\* Array.prototype.slice(0, n) and String.prototype.slice(0, n)
Slice(q, n) == SubSeq(q, 1, IF Len(q) < n THEN Len(q) ELSE n)

\* normalizeScopeKey(scopeKey)
NormalizeScopeKey(scopeKey) ==
  LET trimmed == Trim(scopeKey)
  IN  IF trimmed = <<>>
      THEN <<"u", "n", "s", "a", "v", "e", "d">>
      ELSE Slice([i \in DOMAIN trimmed |->
                    IF trimmed[i] \in WordChars THEN trimmed[i] ELSE "_"],
                 ScopeKeyLimit)

\* getStorageKey(host, scopeKey) with the host left out of the key
GetStorageKey_HostLess(host, scopeKey) ==
  <<"copilot-sessions-", "-">> \o NormalizeScopeKey(scopeKey)

\* getStorageKey(host, scopeKey): `copilot-sessions-${host}-${normalized}`
GetStorageKey(host, scopeKey) ==
  <<"copilot-sessions-", host, "-">> \o NormalizeScopeKey(scopeKey)

\* getLegacyStorageKey(host): `copilot-sessions-${host}`
GetLegacyStorageKey(host) == <<"copilot-sessions-", host>>

\* localStorage.getItem, JSON.stringify and JSON.parse: an item is absent
\* (null) or the text of a list, which parses back to that list
NoItem == [present |-> FALSE, json |-> <<>>]
Stringify(list) == [present |-> TRUE, json |-> list]
Parse(text) == text.json
GetItem(items, key) == IF key \in DOMAIN items THEN items[key] ELSE NoItem
SetItem(items, key, text) ==
  [k \in DOMAIN items \cup {key} |-> IF k = key THEN text ELSE items[k]]

\* getSavedSessions(host, scopeKey) over the items of localStorage
GetSavedSessions(items, host, scopeKey) ==
  LET scopedStored == GetItem(items, GetStorageKey(host, scopeKey))
      legacyStored == GetItem(items, GetLegacyStorageKey(host))
  IN  IF scopedStored.present THEN Parse(scopedStored)
      ELSE IF legacyStored.present THEN Parse(legacyStored)
      ELSE <<>>

\* sessions.findIndex(s => s.id === session.id), 0 for -1
FindIndex(list, id) ==
  IF \E i \in DOMAIN list : list[i].id = id
  THEN CHOOSE i \in DOMAIN list :
         /\ list[i].id = id
         /\ \A j \in DOMAIN list : list[j].id = id => i <= j
  ELSE 0

\* saveSession without its slice(0, MAX_SESSIONS_PER_HOST)
Trimmed_Unbounded(list) == list

\* sessions.slice(0, MAX_SESSIONS_PER_HOST)
Trimmed(list) == Slice(list, MAX_SESSIONS_PER_HOST)

\* the list saveSession writes: the entry replaced or put at the front
Upserted(list, session) ==
  LET existingIndex == FindIndex(list, session.id)
  IN  Trimmed(IF existingIndex > 0
              THEN [list EXCEPT ![existingIndex] = session]
              ELSE <<session>> \o list)

\* sessions.filter(s => s.id !== sessionId)
Filtered(list, sessionId) == SelectSeq(list, LAMBDA s : s.id # sessionId)

notStore == <<clientVars, options, worldVars, thr, ret, ncalls, scenario, qs,
              sx, tcall, cli, argv, ak, nt>>

\* what a call leaves behind for inspection
Call(op, host, scopeKey, session, before, threw, result) ==
  [op |-> op, host |-> host, scopeKey |-> scopeKey, session |-> session,
   before |-> before, threw |-> threw, result |-> result]

\* getSavedSessions(host, scopeKey), called by the application
CallGetSavedSessions(host, scopeKey) ==
  /\ scenario = "storage"
  /\ store.calls < MaxStoreCalls
  /\ LET list == GetSavedSessions(store.items, host, scopeKey)
     IN  store' = [store EXCEPT
                     !.calls = @ + 1,
                     !.last = Call("get", host, scopeKey, NoSaved, list, FALSE, list)]
  /\ UNCHANGED notStore

\* saveSession(host, scopeKey, session); setItem may throw (quota), which the
\* catch logs
SaveSession(host, scopeKey, id, quota) ==
  /\ scenario = "storage"
  /\ store.calls < MaxStoreCalls
  /\ LET session == SavedSession(id, store.calls + 1)
         stored == GetSavedSessions(store.items, host, scopeKey)
         trimmed == Upserted(stored, session)
     IN  store' = [store EXCEPT
                     !.calls = @ + 1,
                     !.items = IF quota THEN @
                               ELSE SetItem(@, GetStorageKey(host, scopeKey),
                                            Stringify(trimmed)),
                     !.saved = IF quota THEN @
                               ELSE @ \cup {[host |-> host, scopeKey |-> scopeKey,
                                             session |-> session]},
                     !.last = Call("save", host, scopeKey, session, stored, quota, <<>>)]
  /\ UNCHANGED notStore

\* deleteSession(host, scopeKey, sessionId)
DeleteSession(host, scopeKey, sessionId, quota) ==
  /\ scenario = "storage"
  /\ store.calls < MaxStoreCalls
  /\ LET stored == GetSavedSessions(store.items, host, scopeKey)
         filtered == Filtered(stored, sessionId)
     IN  store' = [store EXCEPT
                     !.calls = @ + 1,
                     !.items = IF quota THEN @
                               ELSE SetItem(@, GetStorageKey(host, scopeKey),
                                            Stringify(filtered)),
                     !.last = Call("delete", host, scopeKey, SavedSession(sessionId, 0),
                                   stored, quota, <<>>)]
  /\ UNCHANGED notStore

\* the lists an earlier version, which kept one list per host under
\* getLegacyStorageKey(host), may have left behind
LegacyLists ==
  {<<>>, <<SavedSession(MaxSessionIds, 0)>>,
   <<SavedSession(MaxSessionIds, 0), SavedSession(1, 0)>>}

\* localStorage before the first call: empty, or holding the legacy list of
\* one host
InitStorage ==
  /\ NewClient
  /\ argv = NoArgv
  /\ ak = NoAsk
  /\ nt = NoNotification
  /\ options = [useStdio |-> TRUE, autoStart |-> TRUE, autoRestart |-> TRUE]
  /\ scenario = "storage"
  /\ \E host \in Hosts, legacy \in LegacyLists :
       store = [calls |-> 0,
                items |-> IF legacy = <<>> THEN <<>>
                          ELSE SetItem(<<>>, GetLegacyStorageKey(host), Stringify(legacy)),
                saved |-> {},
                last |-> Call("none", host, <<>>, NoSaved, <<>>, FALSE, <<>>)]

NextStorage ==
  \/ \E host \in Hosts, scopeKey \in ScopeKeys : CallGetSavedSessions(host, scopeKey)
  \/ \E host \in Hosts, scopeKey \in ScopeKeys, id \in SessionIds, quota \in BOOLEAN :
       SaveSession(host, scopeKey, id, quota)
  \/ \E host \in Hosts, scopeKey \in ScopeKeys, id \in SessionIds, quota \in BOOLEAN :
       DeleteSession(host, scopeKey, id, quota)

SpecStorage == InitStorage /\ [][NextStorage]_vars

\* ===================================================================== claims

\* C1: on every exit path of query(), by the time the sequence ends the
\* session (if one was created) has been destroyed and Client.stop() has run,
\* so that no spawned process is left running.
C1_TeardownOnEveryExit ==
  qs.outcome # "running" =>
    /\ qs.stopRan
    /\ \A p \in Procs : procs[p].status # "running"
    /\ qs.session # 0 => objs[qs.session].destroyed

\* --------------------------------------------------------- stop(): C2 - C5
\* a stop() call has returned in slot t (ret[t] holds its result and its log)
Stopped(t) == ret[t].op = "stop"
\* the step in which a stop() call returns in slot t
StopReturns(t) ==
  /\ ret'[t].op = "stop"
  /\ IF ret[t].op # "stop" THEN TRUE
     ELSE IF ncalls' # ncalls THEN t = FreeSlot ELSE thr'[t] # thr[t]

FailedAttempts(log) == {i \in DOMAIN log : log[i].k = "destroy" /\ ~log[i].ok}
Exhausted(log) ==
  {i \in DOMAIN log : log[i].k = "destroy" /\ ~log[i].ok /\ log[i].attempt = 3}
TailFailures(log) == {i \in DOMAIN log : log[i].k \in {"dispose", "socket", "kill"}}
SessionErrors(errors) == {i \in DOMAIN errors : errors[i].k = "session"}

\* C2 as stated: stop() never throws, every failure of a session destroy, of
\* the dispose, of the socket close or of the kill is returned as an element
\* of the list, and the list is empty exactly when none of them failed.
C2_EveryFailureReturned ==
  \A t \in Threads : Stopped(t) =>
    /\ ret[t].ok
    /\ Len(ret[t].errors) = Cardinality(FailedAttempts(ret[t].log)) + Cardinality(TailFailures(ret[t].log))
    /\ ret[t].errors = <<>> <=> FailedAttempts(ret[t].log) \cup TailFailures(ret[t].log) = {}

\* C2 (amended): stop() never throws; the list holds one element for each
\* session whose destroy() failed on all 3 attempts and one for each of
\* dispose, socket close and kill that failed, and it is empty exactly when
\* there is no such session and no such step (a destroy failure that a retry
\* makes good is caught and not returned).
C2_ExhaustedFailuresReturned ==
  \A t \in Threads : Stopped(t) =>
    /\ ret[t].ok
    /\ Len(ret[t].errors) = Cardinality(Exhausted(ret[t].log)) + Cardinality(TailFailures(ret[t].log))
    /\ ret[t].errors = <<>> <=> Exhausted(ret[t].log) \cup TailFailures(ret[t].log) = {}

C2_Witness ==
  \E t \in Threads :
    /\ Stopped(t)
    /\ Exhausted(ret[t].log) # {}
    /\ \E i \in DOMAIN ret[t].log : ret[t].log[i].k = "kill"
    /\ \E i \in DOMAIN ret[t].log : ret[t].log[i].k = "destroy" /\ ret[t].log[i].ok
    /\ Len(ret[t].errors) = 2

\* C3: when stop() runs with several registered sessions, a session whose
\* destroy() fails on all 3 attempts contributes exactly one error, destroy()
\* is still attempted on every other registered session, and when stop()
\* returns the registry is empty.
C3_FailedSessionDoesNotAbort ==
  [][\A t \in Threads : StopReturns(t) =>
       LET r == ret'[t] IN
       /\ sessions' = <<>>
       /\ \A o \in r.snap : \E i \in DOMAIN r.log : r.log[i].k = "destroy" /\ r.log[i].obj = o
       /\ \A o \in r.snap :
            Cardinality({i \in SessionErrors(r.errors) : r.errors[i].id = objs[o].sessionId})
              = IF \E i \in Exhausted(r.log) : r.log[i].obj = o THEN 1 ELSE 0]_vars

C3_Witness ==
  \E t \in Threads :
    /\ Stopped(t)
    /\ Cardinality(ret[t].snap) = 2
    /\ Cardinality(Exhausted(ret[t].log)) = 1
    /\ \E i \in DOMAIN ret[t].log : ret[t].log[i].k = "destroy" /\ ret[t].log[i].ok
    /\ Len(ret[t].errors) = 1
    /\ sessions = <<>>

\* the logs of the stop() calls in flight and of those that have returned
StopLogs ==
  {ret[t].log : t \in {u \in Threads : Stopped(u)}}
    \cup {thr[t][i].log : <<t, i>> \in {x \in Threads \X (1..2) : x[2] \in DOMAIN thr[x[1]] /\ thr[x[1]][x[2]].op = "stop"}}

\* C4: during stop(), destroy() is attempted at most 3 times per session and
\* never again once an attempt succeeded; failed attempt 1 is followed by a
\* delay of 100 ms, failed attempt 2 by 200 ms, failed attempt 3 by none.
C4_RetryWithBackoff ==
  \A log \in StopLogs : \A i \in DOMAIN log :
    /\ log[i].k = "destroy" =>
         /\ log[i].attempt \in 1..3
         /\ IF log[i].attempt = 1
            THEN \A j \in 1..(i - 1) : ~(log[j].k = "destroy" /\ log[j].obj = log[i].obj)
            ELSE /\ i > 2
                 /\ log[i - 1].k = "delay"
                 /\ log[i - 2].k = "destroy"
                 /\ log[i - 2].obj = log[i].obj
                 /\ ~log[i - 2].ok
                 /\ log[i - 2].attempt = log[i].attempt - 1
         /\ IF ~log[i].ok /\ log[i].attempt < 3
            THEN /\ i < Len(log)
                 /\ log[i + 1].k = "delay"
                 /\ log[i + 1].ms = (IF log[i].attempt = 1 THEN 100 ELSE 200)
            ELSE i < Len(log) => log[i + 1].k # "delay"
    /\ log[i].k = "delay" =>
         /\ i > 1
         /\ log[i - 1].k = "destroy"
         /\ ~log[i - 1].ok

C4_Witness ==
  \E t \in Threads :
    /\ Stopped(t)
    /\ \E i \in DOMAIN ret[t].log : ret[t].log[i].k = "destroy" /\ ret[t].log[i].attempt = 3 /\ ret[t].log[i].ok
    /\ \E i \in DOMAIN ret[t].log : ret[t].log[i].k = "destroy" /\ ret[t].log[i].attempt = 3 /\ ~ret[t].log[i].ok

\* C5: whatever state the client is in when stop() is called and whichever of
\* its steps fail, every later step is still executed, and when stop() returns
\* the state is disconnected, the registry empty and the connection, socket,
\* process and port released.
C5_StopAlwaysReleases ==
  [][\A t \in Threads : StopReturns(t) =>
       LET r == ret'[t] IN
       /\ state' = "disconnected"
       /\ sessions' = <<>>
       /\ connection' = 0
       /\ socket' = 0
       /\ cliProcess' = 0
       /\ actualPort' = 0
       /\ connection # 0 =>
            IF \E i \in DOMAIN r.log : r.log[i].k = "dispose"
            THEN TRUE ELSE conns'[connection].status = "disposed"
       /\ cliProcess # 0 =>
            IF procs[cliProcess].status # "running" THEN TRUE
            ELSE IF \E i \in DOMAIN r.log : r.log[i].k = "kill"
                 THEN TRUE ELSE procs'[cliProcess].status # "running"]_vars

C5_Witness ==
  \E t \in Threads :
    /\ Stopped(t)
    /\ Exhausted(ret[t].log) # {}
    /\ \E i \in DOMAIN ret[t].log : ret[t].log[i].k = "dispose"
    /\ ~\E i \in DOMAIN ret[t].log : ret[t].log[i].k = "kill"
    /\ \E p \in Procs : procs[p].status = "killed"
    /\ state = "disconnected"
    /\ cliProcess = 0

\* a step in which the start() running in slot t settles (resolves or rejects)
StartSettles(t) ==
  /\ thr[t] # <<>>
  /\ Top(t).op = "start"
  /\ ret'[t].op = "start"
  /\ Len(thr'[t]) = Len(thr[t]) - 1

StartInvoked(t) ==
  \/ /\ thr'[t] # <<>>
     /\ thr'[t][Len(thr'[t])].op = "start"
     /\ thr'[t][Len(thr'[t])].pc = "await_cli"
     /\ IF thr[t] = <<>> THEN TRUE ELSE Top(t).op # "start"
  \/ /\ ret'[t] = NoOpRet
     /\ IF ncalls' # ncalls THEN t = FreeSlot
        ELSE thr'[t] # thr[t] /\ ret[t] # NoOpRet

\* C7: a start() invoked while the state is connected returns at once and
\* changes nothing: no process is spawned, no connection opened, and the
\* state, the registry and the fields holding process and connection are as
\* they were.
C7_StartWhenConnectedIsNoOp ==
  [][\A t \in Threads : StartInvoked(t) /\ state = "connected" =>
       /\ ret'[t] = NoOpRet
       /\ UNCHANGED <<clientVars, worldVars>>]_vars

C7_Witness ==
  \E t \in Threads :
    /\ Idle(t)
    /\ ret[t] = NoOpRet
    /\ state = "connected"
    /\ Cardinality({p \in Procs : ProcUsed(p)}) = 1
    /\ Cardinality({c \in Conns : ConnUsed(c)}) = 1

\* the operating system could not start process p (0: spawn() itself threw)
SpawnFailed(p) == IF p = 0 THEN TRUE ELSE procs[p].status \in {"spawnerr", "failed"}

\* C8: a start() whose spawn or connection step failed leaves the state error
\* and rejects with that failure; the state becomes connected only by a
\* start() whose readiness wait and connection step both succeeded.
C8_StartFailureIsReported ==
  [][/\ \A t \in Threads : StartSettles(t) =>
          LET f == Top(t)
              r == ret'[t]
          IN  IF f.pc = "await_cli"
              THEN /\ state' = "error"
                   /\ ~r.ok
                   /\ r.err = IF f.proc = 0 THEN f.cerr ELSE procs[f.proc].rerr
              ELSE IF f.cres = "err"
              THEN /\ state' = "error"
                   /\ ~r.ok
                   /\ r.err = f.cerr
              ELSE IF SpawnFailed(f.proc)
              THEN /\ state' = "error"
                   /\ ~r.ok
              ELSE /\ state' = "connected"
                   /\ r.ok
     /\ state' = "connected" /\ state # "connected" =>
          \E t \in Threads :
            /\ StartSettles(t)
            /\ Top(t).pc = "await_connect"
            /\ Top(t).cres = "ok"
            /\ Top(t).proc # 0
            /\ procs[Top(t).proc].ready = "resolved"]_vars

\* a step in which the application calls createSession() (it runs in slot t)
CreateSessionCalled(t) ==
  /\ t = FreeSlot
  /\ ncalls' = ncalls + 1
  /\ IF ret'[t].op = "createSession" THEN TRUE
     ELSE IF thr'[t] = <<>> THEN FALSE ELSE thr'[t][1].op = "createSession"

NotConnectedError == ErrRet("createSession", "Client not connected. Call start() first.")

SessionReturned(t) ==
  /\ At(t, "createSession", "await_create")
  /\ ret'[t].op = "createSession"
  /\ ret'[t].ok

\* C10: at the step createSession() returns Session o with id s, the registry
\* maps s to o and the handlers of config.tools are registered on o; and as
\* long as the registry holds an entry for an id, an inbound session.event or
\* tool.call for that id is dispatched to the Session constructed with it.
C10_RegisteredBeforeReturn ==
  /\ [][\A t \in Threads : SessionReturned(t) =>
          LET o == ret'[t].obj IN
          /\ o # 0
          /\ MapGet(sessions', objs'[o].sessionId) = o
          /\ objs'[o].toolHandlers = Top(t).tools]_vars
  /\ [](\A i \in DOMAIN sessions :
          /\ Route(sessions[i].id) = sessions[i].obj
          /\ objs[sessions[i].obj].sessionId = sessions[i].id)

C10_Witness ==
  \E t \in Threads :
    /\ Idle(t)
    /\ ret[t].op = "createSession"
    /\ ret[t].ok
    /\ Route(objs[ret[t].obj].sessionId) = ret[t].obj
    /\ objs[ret[t].obj].toolHandlers = ToolNames

\* ----------------------------------------------------------- CopilotSession
InitSession ==
  /\ Constructed
  /\ options = [useStdio |-> TRUE, autoStart |-> TRUE, autoRestart |-> TRUE]
  /\ scenario = "session"

notSession == <<clientVars, options, worldVars, thr, ret, ncalls, scenario, qs, tcall, cli, pureVars>>

\* Set.has / Set.add / Set.delete on eventHandlers
SetHas(s, h) == \E i \in DOMAIN s : s[i] = h
SetAdd(s, h) == IF SetHas(s, h) THEN s ELSE Append(s, h)
SetDelete_Clear(s, h) == <<>>

SetDelete(s, h) == SelectSeq(s, LAMBDA x : x # h)

\* on(handler): the handler is added and an unsubscribe closure returned
On(h) ==
  /\ scenario = "session"
  /\ Len(sx.subs) < MaxSubs
  /\ sx' = [sx EXCEPT !.eventHandlers = SetAdd(@, h),
                      !.subs = Append(@, [h |-> h, live |-> TRUE]),
                      !.last = [NoLast EXCEPT !.op = "on", !.k = Len(sx.subs) + 1]]
  /\ UNCHANGED notSession

\* the closure on() returned for subscription k is called (again, possibly)
Unsubscribe(k) ==
  /\ scenario = "session"
  /\ k \in DOMAIN sx.subs
  /\ sx' = [sx EXCEPT !.eventHandlers = SetDelete(@, sx.subs[k].h),
                      !.subs[k].live = FALSE,
                      !.last = [NoLast EXCEPT !.op = "unsubscribe", !.k = k]]
  /\ UNCHANGED notSession

\* catch (_error) { } around handler(event)
CatchHandlerError_Rethrown(acc) == [acc EXCEPT !.raised = TRUE]

CatchHandlerError(acc) == acc

\* the for-of loop of _dispatchEvent from position i on; the handlers in
\* throwers raise when they are invoked
RECURSIVE DispatchLoop(_, _, _, _)
DispatchLoop(hs, i, throwers, acc) ==
  IF i > Len(hs) THEN acc
  ELSE IF acc.raised THEN acc
  ELSE LET called == [acc EXCEPT !.inv[hs[i]] = @ + 1] IN
       IF hs[i] \in throwers
       THEN DispatchLoop(hs, i + 1, throwers,
                         CatchHandlerError([called EXCEPT !.threw = @ \cup {hs[i]}]))
       ELSE DispatchLoop(hs, i + 1, throwers, called)

\* _dispatchEvent(event)
DispatchEvent(throwers) ==
  /\ scenario = "session"
  /\ LET r == DispatchLoop(sx.eventHandlers, 1, throwers, NoLast) IN
     sx' = [sx EXCEPT !.last = [r EXCEPT !.op = "dispatch"]]
  /\ UNCHANGED notSession

\* this.toolHandlers.clear()
ClearToolHandlers_Kept(m) == m

ClearToolHandlers(m) == [n \in UnitToolNames |-> 0]

\* for (const tool of tools) this.toolHandlers.set(tool.name, tool.handler)
RECURSIVE SetTools(_, _, _)
SetTools(m, tools, i) ==
  IF i > Len(tools) THEN m
  ELSE SetTools([m EXCEPT ![tools[i].name] = tools[i].handler], tools, i + 1)

\* the arguments registerTools() is called with: undefined or an array of tools
ToolArrays ==
  UNION {[1..n -> [name : UnitToolNames, handler : Handlers]] : n \in 0..MaxTools}
ToolArgs ==
  {[given |-> FALSE, arr |-> <<>>]} \cup {[given |-> TRUE, arr |-> a] : a \in ToolArrays}

\* the tool map registerTools(tools) leaves
ToolHandlersAfter(m, tools) ==
  IF ~tools.given THEN ClearToolHandlers(m)
  ELSE SetTools(ClearToolHandlers(m), tools.arr, 1)

\* registerTools(tools)
RegisterTools(tools) ==
  /\ scenario \in {"session", "tool"}
  /\ sx' = [sx EXCEPT !.toolHandlers = ToolHandlersAfter(@, tools),
                      !.tools = tools, !.regd = TRUE,
                      !.last = [NoLast EXCEPT !.op = "registerTools"]]
  /\ UNCHANGED notSession

\* getToolHandler(name)
GetToolHandler(name) ==
  /\ scenario = "session"
  /\ sx' = [sx EXCEPT !.last = [NoLast EXCEPT !.op = "getToolHandler", !.name = name,
                                              !.got = sx.toolHandlers[name]]]
  /\ UNCHANGED notSession

\* destroy() up to its await: the session.destroy request is sent
DestroyCall ==
  /\ scenario = "session"
  /\ sx.inflight < 2
  /\ sx' = [sx EXCEPT !.inflight = @ + 1, !.last = [NoLast EXCEPT !.op = "destroyCall"]]
  /\ UNCHANGED notSession

\* destroy() resumes: a rejected request is rethrown, after an answered one both
\* collections are cleared.  A disposed connection rejects every request.
DestroySettles ==
  /\ scenario = "session"
  /\ sx.inflight > 0
  /\ \E outcome \in (IF sx.conn = "open" THEN {"ok", "err"} ELSE {"err"}) :
       sx' = IF outcome = "ok"
             THEN [sx EXCEPT !.inflight = @ - 1, !.eventHandlers = <<>>,
                             !.toolHandlers = [n \in UnitToolNames |-> 0],
                             !.destroyed = TRUE, !.regd = FALSE,
                             !.last = [NoLast EXCEPT !.op = "destroy", !.second = sx.destroyed]]
             ELSE [sx EXCEPT !.inflight = @ - 1,
                             !.last = [NoLast EXCEPT !.op = "destroy", !.ok = FALSE,
                                                     !.second = sx.destroyed]]
  /\ UNCHANGED notSession

\* the client that owns the session disposes the connection (stop())
SessionConnectionDisposed ==
  /\ scenario = "session"
  /\ sx.conn = "open"
  /\ sx' = [sx EXCEPT !.conn = "disposed", !.last = [NoLast EXCEPT !.op = "dispose"]]
  /\ UNCHANGED notSession

NextSession ==
  \/ \E h \in Handlers : On(h)
  \/ \E k \in 1..MaxSubs : Unsubscribe(k)
  \/ \E throwers \in SUBSET Handlers : DispatchEvent(throwers)
  \/ \E tools \in ToolArgs : RegisterTools(tools)
  \/ \E name \in UnitToolNames : GetToolHandler(name)
  \/ DestroyCall
  \/ DestroySettles
  \/ SessionConnectionDisposed

SpecSession == InitSession /\ [][NextSession]_vars

\* ------------------------------------------------------ tool.call dispatcher
\* types.ts: ToolResultType
ToolResultTypes == {"success", "failure", "rejected", "denied"}

Null      == [Undefined EXCEPT !.kind = "null"]
Str(s)    == [Undefined EXCEPT !.kind = "string", !.str = s]
Num(s)    == [Undefined EXCEPT !.kind = "number", !.str = s]
ErrorOf(msg) == [Undefined EXCEPT !.kind = "Error", !.message = msg]
\* { textResultForLlm, resultType }
Obj(text, rtype) ==
  [Undefined EXCEPT !.kind = "object", !.has = {"textResultForLlm", "resultType"},
                    !.textResultForLlm = text, !.resultType = rtype]
EmptyObj == [Undefined EXCEPT !.kind = "object"]
\* { textResultForLlm, resultType: "failure", error, toolTelemetry: {} }
FailureResult(text, error) ==
  [Undefined EXCEPT !.kind = "object",
                    !.has = {"textResultForLlm", "resultType", "error", "toolTelemetry"},
                    !.textResultForLlm = text, !.resultType = "failure",
                    !.error = error, !.toolTelemetry = "{}"]

\* types.ts: ToolResult = string | ToolResultObject
WellFormedToolResult(v) ==
  IF v.kind = "string" THEN TRUE
  ELSE /\ v.kind = "object"
       /\ {"textResultForLlm", "resultType"} \subseteq v.has
       /\ v.resultType \in ToolResultTypes

\* what handlers return (a ToolHandler is typed to return a ToolResult; the
\* compiled code accepts whatever a handler hands back) and what they throw
ReturnValues == {Undefined, Null, Str("42 files"), Obj("done", "success"),
                 Obj("no", "denied"), Num("42"), EmptyObj, Obj("done", "ok")}
ThrownValues == {ErrorOf("boom"), ErrorOf(""), Str("oops")}

\* String(value)
StringOf(v) ==
  CASE v.kind = "string"    -> v.str
    [] v.kind = "number"    -> v.str
    [] v.kind = "undefined" -> "undefined"
    [] v.kind = "null"      -> "null"
    [] v.kind = "Error"     -> IF v.message = "" THEN "Error" ELSE "Error: " \o v.message
    [] OTHER                -> "[object Object]"

\* error instanceof Error ? error.message : String(error)
ErrorMessage_ToString(error) == StringOf(error)

ErrorMessage(error) == IF error.kind = "Error" THEN error.message ELSE StringOf(error)

\* the catch block of executeToolCall
CaughtToolResult(error) == FailureResult(ErrorMessage(error), ErrorMessage(error))

\* normalizeToolResult(result)
NormalizeToolResult_PassThrough(result) == result

NormalizeToolResult(result) ==
  IF result.kind \in {"undefined", "null"}
  THEN FailureResult("Tool returned no result", "tool returned no result")
  ELSE result

\* buildUnsupportedToolResult(toolName)
BuildUnsupportedToolResult_Success(toolName) == Obj("", "success")

BuildUnsupportedToolResult(toolName) ==
  FailureResult("Tool '" \o toolName \o "' is not supported by this client instance.",
                "tool '" \o toolName \o "' not supported")

\* the params of an inbound tool.call: null, or an object whose sessionId,
\* toolCallId and toolName are strings or not (session ids are numbered)
ToolCallPayloads ==
  {NullPayload} \cup
  [given : {TRUE},
   sessionId : {[str |-> TRUE, v |-> 1], [str |-> TRUE, v |-> 2], [str |-> FALSE, v |-> 0]},
   toolCallId : [str : BOOLEAN],
   toolName : {[str |-> TRUE, v |-> n] : n \in UnitToolNames} \cup {[str |-> FALSE, v |-> ""]}]

\* !params || typeof params.sessionId !== "string" || ... (negated)
ValidPayload_Unchecked(params) == TRUE

ValidPayload(params) ==
  /\ params.given
  /\ params.sessionId.str
  /\ params.toolCallId.str
  /\ params.toolName.str

\* this.sessions.get(params.sessionId): the keys of the registry are strings
PayloadSession(params) ==
  IF params.given /\ params.sessionId.str THEN Route(params.sessionId.v) ELSE 0
\* session.getToolHandler(params.toolName): so are the keys of the tool map
PayloadHandler(params) ==
  IF params.toolName.str THEN sx.toolHandlers[params.toolName.v] ELSE 0

\* the request is answered: with { result } or, when the handler of the
\* request threw, with an error response
Answered(params, result) ==
  [NoToolCall EXCEPT !.pc = "answered", !.params = params, !.answer = "result",
                     !.result = result]
Failed(params, msg) ==
  [NoToolCall EXCEPT !.pc = "answered", !.params = params, !.answer = "error",
                     !.err = msg]

\* a client that is connected, and the session sx it has created (or none yet)
InitTool ==
  /\ state = "connected"
  /\ cliProcess = 1
  /\ connection = 1
  /\ socket = 0
  /\ actualPort = 0
  /\ sessions \in {<<>>, RegisterSession(<<>>, 1, 1)}
  /\ procs = [p \in Procs |-> IF p = 1 THEN [status |-> "running", ready |-> "resolved",
                                             rerr |-> ""] ELSE NoProc]
  /\ conns = [c \in Conns |-> IF c = 1 THEN [status |-> "listening", proc |-> 1] ELSE NoConn]
  /\ objs = [o \in Objs |-> IF o = 1 /\ sessions # <<>>
                            THEN [NoObj EXCEPT !.sessionId = 1, !.connection = 1]
                            ELSE NoObj]
  /\ thr = [t \in Threads |-> <<>>]
  /\ ret = [t \in Threads |-> NoRet]
  /\ ncalls = 0
  /\ qs = NoQuery
  /\ sx = NoSession
  /\ tcall = NoToolCall
  /\ cli = NoOutput
  /\ PureIdle
  /\ options = [useStdio |-> TRUE, autoStart |-> TRUE, autoRestart |-> TRUE]
  /\ scenario = "tool"

notToolCall == <<clientVars, options, worldVars, thr, ret, ncalls, scenario, qs, sx, cli, pureVars>>

\* handleToolCallRequest(params) up to the await of executeToolCall: the
\* request is refused, answered for a tool without handler, or the handler is
\* invoked; a handler that throws before it returns is answered at once
HandleToolCallRequest(params) ==
  /\ scenario = "tool"
  /\ tcall.pc # "await_handler"
  /\ IF ~ValidPayload(params)
     THEN tcall' = Failed(params, "Invalid tool call payload")
     ELSE IF PayloadSession(params) = 0
     THEN tcall' = Failed(params, "Unknown session " \o ToString(params.sessionId.v))
     ELSE IF PayloadHandler(params) = 0
     THEN tcall' = Answered(params, BuildUnsupportedToolResult(params.toolName.v))
     ELSE LET h == PayloadHandler(params)
              called == [NoToolCall EXCEPT !.params = params, !.handler = h,
                                           !.inv[h] = 1]
          IN  \/ tcall' = [called EXCEPT !.pc = "await_handler"]
              \/ \E e \in ThrownValues :
                   tcall' = [called EXCEPT !.pc = "answered", !.answer = "result",
                                           !.result = CaughtToolResult(e),
                                           !.settled = "threw", !.value = e,
                                           !.sync = TRUE]
  /\ UNCHANGED notToolCall

\* executeToolCall resumes after `await handler(...)`: the value the handler
\* returned or resolved with is normalized, a rejection is caught
HandlerSettles ==
  /\ scenario = "tool"
  /\ tcall.pc = "await_handler"
  /\ \/ \E v \in ReturnValues :
          tcall' = [tcall EXCEPT !.pc = "answered", !.answer = "result",
                                 !.result = NormalizeToolResult(v),
                                 !.settled = "returned", !.value = v]
     \/ \E e \in ThrownValues :
          tcall' = [tcall EXCEPT !.pc = "answered", !.answer = "result",
                                 !.result = CaughtToolResult(e),
                                 !.settled = "threw", !.value = e]
  /\ UNCHANGED notToolCall

NextTool ==
  \/ \E params \in ToolCallPayloads : HandleToolCallRequest(params)
  \/ HandlerSettles
  \/ \E tools \in ToolArgs : RegisterTools(tools)

SpecTool == InitTool /\ [][NextTool]_vars

\* C11: a dispatch invokes every handler of the session exactly once, whichever
\* of them raise, invokes no other handler, and does not raise itself.
C11_DispatchReachesEveryHandler ==
  sx.last.op = "dispatch" =>
    /\ ~sx.last.raised
    /\ \A h \in Handlers :
         sx.last.inv[h] = IF SetHas(sx.eventHandlers, h) THEN 1 ELSE 0

\* two handlers are registered, the first one raised, both were invoked
C11_Witness ==
  /\ sx.last.op = "dispatch"
  /\ Len(sx.eventHandlers) = 2
  /\ sx.eventHandlers[1] \in sx.last.threw
  /\ sx.last.inv[sx.eventHandlers[2]] = 1

\* C12 as stated: after unsubscribe functions were called, a dispatched event
\* reaches the handler of every subscription whose unsubscribe function was not
\* called, and no handler all of whose subscriptions were unsubscribed.
C12_ExactlyThatSubscription ==
  sx.last.op = "dispatch" =>
    /\ \A k \in DOMAIN sx.subs : sx.subs[k].live => sx.last.inv[sx.subs[k].h] = 1
    /\ \A h \in Handlers :
         (\A k \in DOMAIN sx.subs : sx.subs[k].h = h => ~sx.subs[k].live) =>
           sx.last.inv[h] = 0

\* C12 (amended): the unsubscribe function removes the handler function it was
\* returned for from the handler set and no other: afterwards a dispatched
\* event does not reach that function (whether or not another on() call had
\* subscribed the same function) and reaches every other function as before.
C12_UnsubscribeRemovesHandler ==
  /\ [][sx'.last.op = "unsubscribe" /\ sx' # sx =>
          LET h == sx.subs[sx'.last.k].h IN
          /\ ~SetHas(sx'.eventHandlers, h)
          /\ \A g \in Handlers \ {h} :
               SetHas(sx'.eventHandlers, g) <=> SetHas(sx.eventHandlers, g)]_vars
  /\ [](sx.last.op = "dispatch" =>
          \A h \in Handlers : sx.last.inv[h] = 1 <=> SetHas(sx.eventHandlers, h))

\* an unsubscribed handler was passed over by a dispatch that reached another
C12_Witness ==
  /\ sx.last.op = "dispatch"
  /\ \E k, j \in DOMAIN sx.subs :
       /\ ~sx.subs[k].live
       /\ sx.subs[j].live
       /\ sx.subs[j].h # sx.subs[k].h
       /\ sx.last.inv[sx.subs[k].h] = 0
       /\ sx.last.inv[sx.subs[j].h] = 1

\* the handler of the last tool named name in the array (0: no such tool)
HandlerNamed(tools, name) ==
  LET idx == {i \in DOMAIN tools.arr : tools.arr[i].name = name} IN
  IF idx = {} THEN 0
  ELSE tools.arr[CHOOSE i \in idx : \A j \in idx : j <= i].handler

\* C13: after registerTools(tools), getToolHandler(name) yields the handler of
\* the tool named name in tools and nothing for a name tools does not hold,
\* whatever earlier calls registered; after registerTools() without tools it
\* yields nothing for every name.
C13_RegisterToolsReplaces ==
  sx.last.op = "getToolHandler" /\ sx.regd =>
    sx.last.got = HandlerNamed(sx.tools, sx.last.name)

\* a lookup that finds nothing for a name only an earlier call could have set
C13_Witness ==
  /\ sx.last.op = "getToolHandler"
  /\ sx.regd
  /\ Len(sx.tools.arr) = 1
  /\ sx.tools.arr[1].name # sx.last.name
  /\ sx.last.got = 0

\* C14: a destroy() that settles after an earlier destroy() of the session has
\* succeeded does not raise and leaves both handler collections empty.
C14_DestroyTwiceDoesNotRaise ==
  sx.last.op = "destroy" /\ sx.last.second =>
    /\ sx.last.ok
    /\ sx.eventHandlers = <<>>
    /\ \A n \in UnitToolNames : sx.toolHandlers[n] = 0

\* a tool.call request arrives and handleToolCallRequest runs up to its await
ToolCallArrives ==
  /\ scenario = "tool"
  /\ tcall.pc # "await_handler"
  /\ tcall'.pc # "none"
  /\ tcall' # tcall

\* C15: a tool.call for a registered session and a tool name without handler
\* is answered with a ToolResult of resultType "failure" whose text says that
\* the tool is not supported; no handler is invoked and no error is returned.
C15_UnsupportedToolAnswered ==
  [][ToolCallArrives /\ ValidPayload(tcall'.params)
       /\ Route(tcall'.params.sessionId.v) # 0
       /\ sx.toolHandlers[tcall'.params.toolName.v] = 0
     => /\ tcall'.pc = "answered"
        /\ tcall'.answer = "result"
        /\ WellFormedToolResult(tcall'.result)
        /\ tcall'.result.resultType = "failure"
        /\ tcall'.result.textResultForLlm =
             "Tool '" \o tcall'.params.toolName.v \o "' is not supported by this client instance."
        /\ \A h \in Handlers : tcall'.inv[h] = 0]_vars

\* the session has a handler for another tool and the call was answered so
C15_Witness ==
  /\ tcall.pc = "answered"
  /\ tcall.answer = "result"
  /\ ValidPayload(tcall.params)
  /\ Route(tcall.params.sessionId.v) # 0
  /\ sx.toolHandlers[tcall.params.toolName.v] = 0
  /\ \E n \in UnitToolNames : sx.toolHandlers[n] # 0
  /\ tcall.result.resultType = "failure"
  /\ tcall.settled = "none"

\* C16: a tool.call whose payload lacks a string sessionId, toolCallId or
\* toolName, or whose sessionId is not in the registry, is answered with an
\* error and not with a ToolResult, and no handler is invoked.
C16_BadRequestFailsRpc ==
  [][/\ ToolCallArrives
     /\ IF tcall'.params.given /\ tcall'.params.sessionId.str
           /\ tcall'.params.toolCallId.str /\ tcall'.params.toolName.str
        THEN Route(tcall'.params.sessionId.v) = 0
        ELSE TRUE
     => /\ tcall'.pc = "answered"
        /\ tcall'.answer = "error"
        /\ tcall'.err # ""
        /\ tcall'.result = Undefined
        /\ \A h \in Handlers : tcall'.inv[h] = 0]_vars

\* a call naming a registered tool of a registered session was refused because
\* its toolCallId is not a string
C16_Witness ==
  /\ tcall.pc = "answered"
  /\ tcall.answer = "error"
  /\ tcall.params.given
  /\ tcall.params.sessionId.str
  /\ Route(tcall.params.sessionId.v) # 0
  /\ tcall.params.toolName.str
  /\ sx.toolHandlers[tcall.params.toolName.v] # 0
  /\ ~tcall.params.toolCallId.str

\* the message of what a handler threw: of an Error its message, of a thrown
\* string its text
ExceptionMessage(e) == IF e.kind = "Error" THEN e.message ELSE e.str

\* C17: when the handler of a tool.call throws or rejects, the request is
\* answered with a ToolResult of resultType "failure" whose textResultForLlm
\* and error are the message of what was thrown and whose telemetry is empty.
C17_HandlerErrorBecomesFailure ==
  tcall.pc = "answered" /\ tcall.settled = "threw" =>
    /\ tcall.answer = "result"
    /\ tcall.err = ""
    /\ tcall.result.kind = "object"
    /\ tcall.result.resultType = "failure"
    /\ tcall.result.textResultForLlm = ExceptionMessage(tcall.value)
    /\ tcall.result.error = ExceptionMessage(tcall.value)
    /\ tcall.result.toolTelemetry = "{}"

\* the promise a handler returned was rejected with an Error
C17_Witness ==
  /\ tcall.pc = "answered"
  /\ tcall.settled = "threw"
  /\ tcall.value = ErrorOf("boom")
  /\ ~tcall.sync
  /\ tcall.result.error = "boom"

\* C18: a handler that returns undefined or null is answered with a "failure"
\* ToolResult saying that the tool returned no result; a handler that returns
\* a string is answered with that string.
C18_NoResultAndBareString ==
  tcall.pc = "answered" /\ tcall.settled = "returned" =>
    /\ tcall.answer = "result"
    /\ tcall.value.kind \in {"undefined", "null"} =>
         /\ tcall.result.kind = "object"
         /\ tcall.result.resultType = "failure"
         /\ tcall.result.textResultForLlm = "Tool returned no result"
    /\ tcall.value.kind = "string" => tcall.result = tcall.value

\* a handler returned null and was answered with the failure result
C18_Witness ==
  /\ tcall.pc = "answered"
  /\ tcall.settled = "returned"
  /\ tcall.value = Null
  /\ tcall.result.resultType = "failure"

\* C19: every ToolResult the dispatcher answers a tool.call with is a string
\* or an object with textResultForLlm and a resultType among success,
\* failure, rejected and denied, whatever the handler returned or threw.
C19_EveryResponseWellFormed ==
  tcall.answer = "result" => WellFormedToolResult(tcall.result)

\* the session events among what query() has yielded
SessionEventsOut == SelectSeq(qs.out, LAMBDA e : e.n # 0)

\* C20: query() leaves an event whose ephemeral flag is set out of its output
\* when includeEphemeral is false; when includeEphemeral is true or not given
\* it hands the event on as it does an event without the flag, which is never
\* left out: every event but a session.error, which ends the query, is yielded.
C20_EphemeralFilter ==
  SessionEventsOut =
    SelectSeq(qs.taken, LAMBDA e : /\ e.type # "session.error"
                                   /\ ~(e.ephemeral /\ qs.includeEphemeral = "false"))

\* with includeEphemeral false an ephemeral event was left out and an event
\* without the flag yielded
C20_Witness ==
  /\ qs.includeEphemeral = "false"
  /\ Len(qs.taken) = 2
  /\ \E i \in DOMAIN qs.taken : qs.taken[i].ephemeral /\ qs.taken[i].type # "session.error"
  /\ Len(qs.out) = 1
  /\ ~qs.out[1].ephemeral

\* query() has ended and its teardown ran through client.stop()
QueryEnded == qs.outcome # "running"
TornDown   == qs.outcome # "running" /\ qs.stopRan
\* the loop took the event and the filter let it pass
Handled(e) == ~(e.ephemeral /\ qs.includeEphemeral = "false")

PayloadMessage(e) == IF e.hasMessage THEN "model overloaded" ELSE "Unknown error"

C23_IdleEndsQuery ==
  qs.timer # "fired" /\ (QueryEnded => qs.stopRan) /\ qs.send # "err" =>
    \A i \in DOMAIN qs.taken :
      qs.taken[i].type = "session.idle" =>
        /\ \A j \in DOMAIN qs.out : qs.out[j].n <= qs.taken[i].n
        /\ QueryEnded => qs.outcome = "returned"

CleanupPositions == {i \in DOMAIN qs.out : qs.out[i].type = "error"}

Received == qs.taken \o qs.pending
Ascending(evs) == \A i, j \in DOMAIN evs : i < j => evs[i].n < evs[j].n

\* C26: the events of a session reach its handler in the order in which their
\* notifications arrived, each once, and query() yields them in that order,
\* one at a time: none is yielded twice or ahead of an earlier one.
C26_EventsKeepTheirOrder ==
  /\ \A i \in DOMAIN Received : Received[i].n = i
  /\ Ascending(SessionEventsOut)
  /\ \A i \in DOMAIN SessionEventsOut :
       \E j \in DOMAIN qs.taken : qs.taken[j] = SessionEventsOut[i]

\* two events waited in the buffer behind a yielded one and all three were
\* yielded
C26_Witness ==
  /\ Len(qs.out) = 3
  /\ qs.out[1].n = 1
  /\ qs.out[2].n = 2
  /\ qs.out[3].n = 3
  /\ qs.out[1].type = "assistant.message"
  /\ qs.out[2].type = "assistant.message"

\* C27: in TCP mode, once the process has printed "listening on port N", in
\* one chunk or in several, the port recorded is N, and a start() that returned
\* has dialled port N and built its connection on that socket.
C27_AnnouncedPortIsDialled ==
  /\ actualPort \in {0, cli.port}
  /\ ret[1].op = "start" /\ ret[1].ok =>
        /\ actualPort = cli.port
        /\ socket = cli.port
        /\ connection # 0
        /\ conns[connection].proc = cli.port

\* C28: a start() whose process failed to spawn (the "error" event of the
\* child process) fails and leaves the state error, in stdio mode and in TCP
\* mode alike; it never returns with the state connected.
C28_SpawnErrorFailsStart ==
  [][\A t \in Threads :
       StartSettles(t) /\ SpawnFailed(Top(t).proc) =>
         /\ ~ret'[t].ok
         /\ state' = "error"]_vars

\* a process whose readiness was settled exits; a listening channel closes
ExitStep(p)  == /\ procs[p].ready # "pending"
                /\ procs[p].status # "exited"
                /\ procs'[p].status = "exited"
CloseStep(c) == /\ conns[c].status = "listening"
                /\ conns'[c].status = "closed"
\* a reconnect() begins in this step
ReconnectBegins == \E t \in Threads : /\ thr[t] = <<>>
                                      /\ thr'[t] # <<>>
                                      /\ thr'[t][1].op = "reconnect"

\* C29: once readiness is settled, an exit of the process or a close of the
\* channel begins a reconnect() if and only if auto-restart is enabled and the
\* state is connected; with auto-restart disabled the client is left as it is.
C29_ReconnectIffAutoRestartAndConnected ==
  [][(\E p \in Procs : ExitStep(p)) \/ (\E c \in Conns : CloseStep(c)) =>
       /\ ReconnectBegins <=> (options.autoRestart /\ state = "connected")
       /\ ~options.autoRestart => UNCHANGED <<clientVars, thr>>]_vars

\* a reconnect() is running: it was begun by an exit or a close
C29_Witness ==
  \E t \in Threads : thr[t] # <<>> /\ thr[t][1].op = "reconnect"

\* the start() that reconnect() awaits fails in this step
ReconnectStartFails(t) ==
  /\ StartSettles(t)
  /\ thr[t][1].op = "reconnect"
  /\ ~ret'[t].ok
\* reconnect() returns in this step
ReconnectReturns(t) ==
  /\ thr[t] # <<>>
  /\ thr[t][1].op = "reconnect"
  /\ thr'[t] = <<>>
\* the failure is swallowed and nothing retries: reconnect() resolves, and no
\* reconnect() begins in the step of the failure, in the step of the return,
\* or while the state is st
Swallowed(st) ==
  /\ \A t \in Threads :
        /\ ReconnectStartFails(t) => ~ReconnectBegins
        /\ ReconnectReturns(t) => /\ ret'[t].op = "reconnect"
                                  /\ ret'[t].ok
                                  /\ ~ReconnectBegins
  /\ state = st => ~ReconnectBegins

\* C30 as stated: a failure of the start() inside reconnect() is not passed
\* on, nothing retries, and the client is left in state disconnected.
C30_FailedReconnectLeavesDisconnected ==
  [][/\ \A t \in Threads : ReconnectStartFails(t) => state' = "disconnected"
     /\ Swallowed("disconnected")]_vars

\* C30, amended: a failure of the start() inside reconnect() is not passed on
\* and nothing retries; the client is left in state error, the state the catch
\* block of start() sets, and no reconnect() begins from that state.
C30_FailedReconnectLeavesError ==
  [][/\ \A t \in Threads : ReconnectStartFails(t) => state' = "error"
     /\ Swallowed("error")]_vars

\* a reconnect() has returned after its start() failed
C30_Witness ==
  \E t \in Threads : /\ ret[t].op = "reconnect"
                     /\ ret[t].ok
                     /\ ret[t].err # ""
                     /\ state = "error"

\* forceStop() is called and returns in this step
ForceStopStep(t) ==
  /\ ncalls' = ncalls + 1
  /\ t = FreeSlot
  /\ ret'[t].op = "forceStop"

\* C31: forceStop() sends no session.destroy request, empties the registry,
\* disposes the connection, destroys the socket and kills the process, does
\* not throw whichever of these steps fails, and leaves the state disconnected
\* with connection, socket and process released.
C31_ForceStopReleasesEverything ==
  [][\A t \in Threads : ForceStopStep(t) =>
       LET r == ret'[t]
           Tried(k) == \E i \in DOMAIN r.log : r.log[i].k = k
           Done(k)  == \E i \in DOMAIN r.log : r.log[i].k = k /\ r.log[i].ok
       IN  /\ r.ok
           /\ ~Tried("destroy")
           /\ objs' = objs
           /\ sessions' = <<>>
           /\ Tried("dispose") <=> connection # 0
           /\ Tried("socket") <=> socket # 0
           /\ Tried("kill") <=> cliProcess # 0
           /\ Done("dispose") => conns'[connection].status = "disposed"
           /\ Done("kill") => procs'[cliProcess].status # "running"
           /\ state' = "disconnected"
           /\ connection' = 0
           /\ socket' = 0
           /\ cliProcess' = 0]_vars

\* a forceStop() over registered sessions has returned after a step of it failed
C31_Witness ==
  \E t \in Threads :
    /\ ret[t].op = "forceStop"
    /\ ret[t].snap # {}
    /\ \E i \in DOMAIN ret[t].log : ~ret[t].log[i].ok

\* C32: the client owns at most one process: while it refers to a process, no
\* other process it spawned is still running.
C32_OneProcessAtATime ==
  cliProcess # 0 =>
    \A p \in Procs : procs[p].status = "running" => p = cliProcess

\* the caller's extra arguments and the flags the client adds after them
ExtraArgs   == IF argv.given.cliArgs.set THEN argv.given.cliArgs.v ELSE <<>>
ManagedArgs == SubSeq(argv.args, Len(ExtraArgs) + 1, Len(argv.args))
Count(args, flag) == Cardinality({i \in DOMAIN args : args[i] = flag})
\* the extra arguments come first, then the server-mode flag and the log level
ArgsBegin ==
  /\ Len(argv.args) >= Len(ExtraArgs) + 3
  /\ SubSeq(argv.args, 1, Len(ExtraArgs)) = ExtraArgs
  /\ ManagedArgs[1] = "--server"
  /\ ManagedArgs[2] = "--log-level"
  /\ ManagedArgs[3] = IF argv.given.logLevel.set THEN argv.given.logLevel.v ELSE "info"
\* the caller asked for TCP with a port, or for TCP without one
TcpWithPort == /\ argv.given.useStdio = Given(FALSE)
               /\ argv.given.port.set
               /\ argv.given.port.v > 0
TcpNoPort   == /\ argv.given.useStdio = Given(FALSE)
               /\ ~TcpWithPort

\* C33 as stated: the argument list is the extra arguments, the server-mode
\* flag, the log level and exactly one of the stdio flag and the port flag,
\* for every ClientOptions.
C33_ExactlyOneTransportFlag ==
  argv.pc = "spawned" =>
    /\ ArgsBegin
    /\ Count(ManagedArgs, "--stdio") + Count(ManagedArgs, "--port") = 1

\* C33, amended: the argument list is the extra arguments, the server-mode
\* flag and the log level, followed by the stdio flag alone in stdio mode, by
\* the port flag and the port in TCP mode with a positive port, and by nothing
\* in TCP mode without one.
C33_TransportFlagFollowsOptions ==
  argv.pc = "spawned" =>
    /\ ArgsBegin
    /\ SubSeq(ManagedArgs, 4, Len(ManagedArgs)) =
         IF TcpWithPort THEN <<"--port", ToString(argv.given.port.v)>>
         ELSE IF TcpNoPort THEN <<>>
         ELSE <<"--stdio">>

\* the process was spawned in TCP mode for options that name no port
C33_Witness ==
  /\ argv.pc = "spawned"
  /\ TcpNoPort
  /\ ExtraArgs # <<>>

\* --------------------------------------------------------------------- ask()
\* event.data as ask() inspects it: its runtime type, whether it has a content
\* property and whether that is a string
NoData == [kind |-> "undefined", hasContent |-> FALSE, isString |-> FALSE, content |-> ""]
DataValues ==
  {NoData,
   [NoData EXCEPT !.kind = "null"],
   [NoData EXCEPT !.kind = "object"],
   [NoData EXCEPT !.kind = "object", !.hasContent = TRUE, !.content = "4"],
   [NoData EXCEPT !.kind = "object", !.hasContent = TRUE, !.isString = TRUE, !.content = "4"],
   [NoData EXCEPT !.kind = "object", !.hasContent = TRUE, !.isString = TRUE, !.content = "four"]}
AskEvents == [type : {"assistant.message", "tool.execution_start", "error"}, data : DataValues]
\* what query() throws (errors, or any other value a rejected send hands over)
\* and what an onEvent callback throws
QueryErrors   == {ErrorOf(TimeoutMessage), ErrorOf("Unknown error"),
                  ErrorOf("Failed to start CLI server"), Str("send failed")}
OnEventErrors == {ErrorOf("callback failed"), Str("oops")}

\* err instanceof Error ? err : new Error(String(err))
AsError(err) == IF err.kind = "Error" THEN err ELSE ErrorOf(StringOf(err))

\* the content of an assistant.message: data.content if data is an object with
\* a string content, "" otherwise
ContentOf(event) ==
  IF event.data.kind = "object" /\ event.data.hasContent /\ event.data.isString
  THEN event.data.content
  ELSE ""

\* AskResult; error is absent on the normal return
NoError == [set |-> FALSE, v |-> Undefined]
AskResult(content, events, completed, error) ==
  [content |-> content, events |-> events, completed |-> completed, error |-> error]

\* the catch block of ask(): the promise of ask() resolves with a result
AskSettles_Rethrow(threw) == IF threw THEN "rejected" ELSE "resolved"

AskSettles(threw) == "resolved"

\* what the catch block returns for the value err
Caught(a, err) ==
  [a EXCEPT !.pc = AskSettles(TRUE),
            !.result = AskResult(a.finalContent, a.events, FALSE,
                                 [set |-> TRUE, v |-> AsError(err)])]

notAsk == <<clientVars, options, worldVars, thr, ret, ncalls, scenario, qs,
            sx, tcall, cli, argv, store, nt>>

\* query() yields event: the loop body pushes it, calls onEvent and tracks the
\* last assistant message; an onEvent that throws closes the generator
\* (for-await calls return()) and lands in the catch block
QueryYields(event, thrown) ==
  /\ ak.pc = "iterating"
  /\ Len(ak.yielded) < MaxAskEvents
  /\ LET a == [ak EXCEPT !.yielded = Append(ak.yielded, event),
                         !.events = Append(ak.events, event)]
     IN  IF ak.onEvent /\ thrown # Undefined
         THEN ak' = Caught([a EXCEPT !.gen = "closed"], thrown)
         ELSE ak' = [a EXCEPT !.finalContent = IF event.type = "assistant.message"
                                               THEN ContentOf(event)
                                               ELSE a.finalContent]
  /\ UNCHANGED notAsk

\* query() ends: the loop is left and the result returned
QueryReturns ==
  /\ ak.pc = "iterating"
  /\ ak' = [ak EXCEPT !.pc = AskSettles(FALSE), !.gen = "returned",
                      !.result = AskResult(ak.finalContent, ak.events, TRUE, NoError)]
  /\ UNCHANGED notAsk

\* query() throws err: timeout, session error, start or send failure
QueryThrows(err) ==
  /\ ak.pc = "iterating"
  /\ ak' = Caught([ak EXCEPT !.gen = "threw"], err)
  /\ UNCHANGED notAsk

\* ask(prompt, options) up to the first next() of its loop
InitAsk ==
  /\ NewClient
  /\ argv = NoArgv
  /\ store = NoStore
  /\ nt = NoNotification
  /\ options = [useStdio |-> TRUE, autoStart |-> TRUE, autoRestart |-> TRUE]
  /\ scenario = "ask"
  /\ \E cb \in BOOLEAN : ak = [NoAsk EXCEPT !.pc = "iterating", !.onEvent = cb,
                                             !.gen = "running"]

NextAsk ==
  \/ \E event \in AskEvents, thrown \in OnEventErrors \cup {Undefined} :
       QueryYields(event, thrown)
  \/ QueryReturns
  \/ \E err \in QueryErrors : QueryThrows(err)

SpecAsk == InitAsk /\ [][NextAsk]_vars

\* C34: ask() never rejects. Its result holds every event query() yielded; it
\* is completed without error exactly when query() ended without throwing and
\* no onEvent callback threw, and otherwise not completed, with an Error set.
C34_AskNeverRejects ==
  /\ ak.pc # "rejected"
  /\ ak.pc = "resolved" =>
       /\ ak.result.events = ak.yielded
       /\ ak.result.completed <=> ak.gen = "returned"
       /\ ak.result.completed => ~ak.result.error.set
       /\ ~ak.result.completed => /\ ak.result.error.set
                                  /\ ak.result.error.v.kind = "Error"

\* ask() has resolved after query() threw behind an event it had yielded
C34_Witness ==
  /\ ak.pc = "resolved"
  /\ ak.gen = "threw"
  /\ ak.yielded # <<>>
  /\ ~ak.result.completed

\* C35: the readiness wait of a process is settled once. It is resolved only
\* by the port announcement and rejected only by the spawn error, by the exit
\* (with a message carrying the exit code) or by the timer, each with its own
\* message; once settled, no later event changes the outcome or its message.
C35_ReadinessSettledOnce ==
  [][\A p \in Procs :
       IF procs[p].ready # "pending"
       THEN /\ procs'[p].ready = procs[p].ready
            /\ procs'[p].rerr = procs[p].rerr
       ELSE /\ procs'[p].ready = "resolved" =>
                 IF options.useStdio THEN procs[p].status = "none" ELSE actualPort' = p
            /\ procs'[p].ready = "rejected" =>
                 procs'[p].rerr =
                   IF procs[p].status = "spawnerr" /\ procs'[p].status = "failed"
                   THEN "Failed to start CLI server"
                   ELSE IF procs'[p].status = "exited" /\ procs[p].status # "exited"
                   THEN "CLI server exited with code "
                        \o (IF procs[p].status = "killed" THEN "null"
                            ELSE CHOOSE c \in {"0", "1"} :
                                   procs'[p].rerr = "CLI server exited with code " \o c)
                   ELSE "Timeout waiting for CLI server to start"]_vars

\* in TCP mode a process whose readiness wait had timed out has exited later
C35_Witness ==
  \E p \in Procs :
    /\ ~options.useStdio
    /\ procs[p].ready = "rejected"
    /\ procs[p].rerr = "Timeout waiting for CLI server to start"
    /\ procs[p].status = "exited"

\* ------------------------------------------- session.event notifications
\* the sessionId property of a notification: absent, a number or a string
NoSid == [has |-> FALSE, str |-> FALSE, v |-> 0]
SidValues ==
  {NoSid, [has |-> TRUE, str |-> FALSE, v |-> 1]}
  \cup {[has |-> TRUE, str |-> TRUE, v |-> n] : n \in 1..(MaxObjs + 1)}
\* what arrives as the notification: a value that is no object, or an object
\* with or without sessionId and event; the event property holds a
\* SessionEvent or null
NotificationPayloads ==
  {[kind |-> k, sessionId |-> NoSid, event |-> "absent"] : k \in {"undefined", "null", "string"}}
  \cup {[kind |-> "object", sessionId |-> sid, event |-> e] :
          sid \in SidValues, e \in {"absent", "event", "null"}}

\* the guard of handleSessionEventNotification
ValidNotification_EventUnchecked(n) ==
  /\ n.kind = "object"
  /\ n.sessionId.has
  /\ n.sessionId.str

ValidNotification(n) ==
  /\ n.kind = "object"
  /\ n.sessionId.has
  /\ n.sessionId.str
  /\ n.event # "absent"

\* the handlers a session with k subscriptions iterates over
HandlersOf(o) == [i \in 1..objs[o].eventHandlers |-> i]

notNotify == <<clientVars, options, worldVars, thr, ret, ncalls, scenario, qs,
               sx, tcall, cli, argv, ak, store>>

\* handleSessionEventNotification(notification): the guard, the lookup in the
\* registry and _dispatchEvent on the session found
HandleSessionEventNotification(n, throwers) ==
  /\ scenario = "notify"
  /\ connection # 0
  /\ conns[connection].status = "listening"
  /\ LET o == IF ValidNotification(n) THEN Route(n.sessionId.v) ELSE 0
         r == [p \in Objs |-> IF p = o THEN DispatchLoop(HandlersOf(p), 1, throwers, NoLast)
                                       ELSE NoLast]
     IN  nt' = [pc |-> "handled", params |-> n,
                inv |-> [p \in Objs |-> r[p].inv],
                raised |-> \E p \in Objs : r[p].raised]
  /\ UNCHANGED notNotify

\* a connected client with two session objects, any of them registered, each
\* with some handlers subscribed
InitNotify ==
  /\ state = "connected"
  /\ cliProcess = 1
  /\ connection = 1
  /\ socket = 0
  /\ actualPort = 0
  /\ \E reg \in {<<>>, <<1>>, <<2>>, <<1, 2>>} :
       sessions = [i \in DOMAIN reg |-> [id |-> reg[i], obj |-> reg[i]]]
  /\ procs = [p \in Procs |-> IF p = 1 THEN [status |-> "running", ready |-> "resolved",
                                             rerr |-> ""] ELSE NoProc]
  /\ conns = [c \in Conns |-> IF c = 1 THEN [status |-> "listening", proc |-> 1] ELSE NoConn]
  /\ \E hs \in [Objs -> 0..MaxHandlers] :
       objs = [o \in Objs |-> [sessionId |-> o, connection |-> 1, toolHandlers |-> {},
                               eventHandlers |-> hs[o], destroyed |-> FALSE]]
  /\ thr = [t \in Threads |-> <<>>]
  /\ ret = [t \in Threads |-> NoRet]
  /\ ncalls = 0
  /\ qs = NoQuery
  /\ sx = NoSession
  /\ tcall = NoToolCall
  /\ cli = NoOutput
  /\ argv = NoArgv
  /\ ak = NoAsk
  /\ store = NoStore
  /\ nt = NoNotification
  /\ options = [useStdio |-> TRUE, autoStart |-> TRUE, autoRestart |-> TRUE]
  /\ scenario = "notify"

NextNotify ==
  \E n \in NotificationPayloads, throwers \in SUBSET Handlers :
    HandleSessionEventNotification(n, throwers)

SpecNotify == InitNotify /\ [][NextNotify]_vars

\* the handlers of session object o that the last notification invoked
Invoked(o) == {h \in Handlers : nt.inv[o][h] > 0}
\* the session object registered under the id the last notification names
Addressee ==
  IF nt.params.kind = "object" /\ nt.params.sessionId.has /\ nt.params.sessionId.str
  THEN MapGet(sessions, nt.params.sessionId.v)
  ELSE 0
\* a notification reaches the handlers of its addressee, each once, or nobody
ReachesOnly(wellFormed) ==
  /\ ~nt.raised
  /\ \A o \in Objs :
       IF wellFormed /\ o = Addressee
       THEN \A h \in Handlers : nt.inv[o][h] = IF h <= objs[o].eventHandlers THEN 1 ELSE 0
       ELSE Invoked(o) = {}

\* C36 as stated: a notification is dispatched only to the handlers of the
\* registered session it names; one that names no registered session or whose
\* payload is malformed (not an object, no string sessionId, or no
\* SessionEvent in event) invokes no handler, raises nothing, changes nothing.
C36_MalformedNotificationIsDropped ==
  /\ [](nt.pc = "handled" => ReachesOnly(nt.params.event = "event"))
  /\ [][nt' # nt => UNCHANGED notNotify]_vars

\* C36, amended: the payload is refused only if it is not an object, has no
\* string sessionId or has no event property; whatever the event property
\* holds is dispatched to the handlers of the registered session named.
C36_NotificationReachesOnlyItsSession ==
  /\ [](nt.pc = "handled" => ReachesOnly(nt.params.event # "absent"))
  /\ [][nt' # nt => UNCHANGED notNotify]_vars

\* a notification for one of two registered sessions, both with handlers, has
\* been dispatched
C36_Witness ==
  /\ nt.pc = "handled"
  /\ Len(sessions) = 2
  /\ \A o \in Objs : objs[o].eventHandlers > 0
  /\ Addressee # 0
  /\ Invoked(Addressee) # {}

\* C37: the exit of a process that stop() has killed begins no reconnect():
\* when the client has started a newer process since, the late exit of the old
\* one leaves the client and its new process as they are.
C37_KilledProcessExitIsIgnored ==
  [][\A p \in Procs :
       /\ procs[p].status = "killed"
       /\ procs'[p].status = "exited"
       /\ cliProcess # 0
       /\ cliProcess # p
       /\ procs[cliProcess].status = "running"
       => /\ ~ReconnectBegins
          /\ UNCHANGED clientVars]_vars

\* C38: stop() sends no session.destroy request for a session whose destroy()
\* has already succeeded; a query() that ends normally has sent exactly one.
C38_NoSecondDestroyRequest ==
  \A t \in Threads :
    At(t, "stop", "await_destroy") => ~objs[Top(t).cur].destroyed

\* the lists localStorage holds under the scoped keys
StoredLists ==
  {Parse(store.items[GetStorageKey(h, k)]) :
     <<h, k>> \in {x \in Hosts \X ScopeKeys : GetStorageKey(x[1], x[2]) \in DOMAIN store.items}}
\* what the last call, a saveSession whose write went through, left stored
Written == Parse(GetItem(store.items, GetStorageKey(store.last.host, store.last.scopeKey)))
Ids(list) == {list[i].id : i \in DOMAIN list}

\* C39: after any sequence of saveSession and deleteSession calls every stored
\* list holds at most MAX_SESSIONS_PER_HOST sessions and no two of them share
\* an id; a save of a stored id replaces that entry in place, a save of a new
\* id puts it at the front, and the entries beyond the cap are dropped.
C39_StoredListBoundedAndDistinct ==
  /\ \A list \in StoredLists :
       /\ Len(list) <= MAX_SESSIONS_PER_HOST
       /\ \A i, j \in DOMAIN list : list[i].id = list[j].id => i = j
  /\ store.last.op = "save" /\ ~store.last.threw =>
       LET before == store.last.before
           s == store.last.session
       IN  IF s.id \in Ids(before)
           THEN /\ Len(Written) = Len(before)
                /\ \A i \in DOMAIN before :
                     Written[i] = IF before[i].id = s.id THEN s ELSE before[i]
           ELSE /\ Len(Written) = IF Len(before) < MAX_SESSIONS_PER_HOST
                                  THEN Len(before) + 1 ELSE MAX_SESSIONS_PER_HOST
                /\ Written[1] = s
                /\ \A i \in 2..Len(Written) : Written[i] = before[i - 1]

\* a save of a new id into a full list has dropped the last entry
C39_Witness ==
  /\ store.last.op = "save"
  /\ ~store.last.threw
  /\ Len(store.last.before) = MAX_SESSIONS_PER_HOST
  /\ store.last.session.id \notin Ids(store.last.before)
  /\ Len(Written) = MAX_SESSIONS_PER_HOST

\* the sessions saveSession has stored under this host and this scope key
SavedUnder(host, scopeKey) ==
  {r.session : r \in {x \in store.saved : x.host = host /\ x.scopeKey = scopeKey}}
\* the sessions saveSession has stored under this host and a scope key with
\* the same normalised form as this one
SavedUnderNormalised(host, scopeKey) ==
  {r.session : r \in {x \in store.saved :
                        /\ x.host = host
                        /\ NormalizeScopeKey(x.scopeKey) = NormalizeScopeKey(scopeKey)}}
\* the sessions of the list an earlier version left under the key of the host
LegacyOf(host) ==
  LET list == Parse(GetItem(store.items, GetLegacyStorageKey(host)))
  IN  {list[i] : i \in DOMAIN list}
Returned == {store.last.result[i] : i \in DOMAIN store.last.result}

====
